---------------------------- MODULE Spec2Model ----------------------------
(***************************************************************************)
(* Verification model of the cognitive-dissonance repository.              *)
(*                                                                         *)
(* Part 1 (specification Spec): the simulation Web Worker.  The repository *)
(* holds two implementations of it: src/worker/game.worker.ts (clock       *)
(* performance.now, frame factor clamped at 60, guard "if (!logic)         *)
(* return") and the worker in unnamed/part_022 (clock Date.now, clamp 10,  *)
(* PING command, no guard).  The variable impl says which one runs.        *)
(*                                                                         *)
(* Part 2 (specification SpecStart): the delayed, polling START of the     *)
(* Game component (components/pattern-stabilizer.tsx, handleStartLogic).   *)
(*                                                                         *)
(* Part 3 (specification SpecLevel): the zustand level store               *)
(* (store/level-store.ts).                                                 *)
(*                                                                         *)
(* Part 4 (specification SpecBoard): the sphere's shatter, the game-over   *)
(* overlay and its restart, the game store and the seed store.             *)
(*                                                                         *)
(* Part 5 (specification SpecPattern): the pattern stabilizer's frame loop *)
(* and the input store.                                                    *)
(*                                                                         *)
(* Part 6 (specification SpecDirector): the AI director's state machine.   *)
(*                                                                         *)
(* Part 7 (specification SpecGovernor): the governor's decision functions. *)
(*                                                                         *)
(* Part 8 (specification SpecAudio): the audio store.                      *)
(*                                                                         *)
(* Part 9 (specification SpecMusic): AdaptiveMusic.                        *)
(*                                                                         *)
(* Part 10 (specification SpecBoss): the boss AI's goal evaluators.        *)
(*                                                                         *)
(* Part 11 (specification SpecPool): the SPSEnemies particle pool.         *)
(*                                                                         *)
(* Part 12 (specification SpecExplosion): the HeadExplosion component.     *)
(*                                                                         *)
(* Part 13 (specification SpecScore): high score persistence.              *)
(*                                                                         *)
(* Part 14 (specification SpecDream): spawnDreamFromSeed and the dream     *)
(* archetype queries.                                                      *)
(*                                                                         *)
(* Part 15 (specification SpecSpatial): the SpatialAudio component's lazy  *)
(* synth construction and its cleanup.                                     *)
(*                                                                         *)
(* Specification SpecClock is Part 1's worker with a wall clock that can   *)
(* be set back.                                                            *)
(*                                                                         *)
(* Time is in milliseconds.  The frame factor dt = elapsed / 16.67 is kept *)
(* exactly as the integer dt * 1667 = elapsed * 100.                       *)
(***************************************************************************)
EXTENDS Integers, Sequences, FiniteSets, TLC

(***************************************************************************)
(* Bounds of the model (not program constants).                            *)
(***************************************************************************)
\* the worker's clock stops advancing here
MaxTime == 48
\* number of logic.update calls that complete in one run
MaxTicks == 2
\* number of ability / nuke calls that complete in one run
MaxInputs == 1
\* async calls of the audio store suspended at the same time
MaxAudioTasks == 2
\* tenths of a second the boss's cooldown is followed below 0
MaxOvershoot == 1
\* particles the pool activates in one run
MaxActivations == 2
\* the render clock of the head explosion stops advancing here, in ms
MaxClock == 7500
\* length of the seed strings tried
MaxSeedLen == 2
\* dreams spawned in one run
MaxDreams == 2
\* the main thread's clock stops advancing here
UiMaxTime == 11400
\* number of start requests in one run
MaxRequests == 2
\* advanceLevel stops here
MaxLevel == 3
\* addCoherence is not followed further than this below zero
MaxDeficit == 40
\* number of restarts followed from the game-over overlay
MaxRestarts == 1
\* number of distinct raw seeds Math.random / Date.now can produce
MaxSeeds == 2
\* number of rng() calls recorded per installed generator
MaxDraws == 2
\* number of patterns spawned in one run
MaxSpawns == 3
\* length of the enemy list read into a snapshot
MaxEnemies == 3

(***************************************************************************)
(* Program constants.                                                      *)
(***************************************************************************)
\* setTimeout(..., 16)
TimerDelay == 16
\* Math.min(..., 60) of game.worker.ts
ClampPerf == 60
\* Math.min(..., 10) of part_022
ClampDate == 10
\* the divisor 16.67, times 100
FrameMs100 == 1667

\* setTimeout(() => attemptStart(), 1100)
StartDelay == 1100
\* setTimeout(() => attemptStart(retries + 1), 200)
RetryDelay == 200
\* retries < 50
RetryLimit == 50
\* the safety timeout of handleStartLogic, 3000
SafetyDelay == 3000
\* while no timer is pending the main thread's clock advances by this much
IdleStep == 1000

Impls == {"worker_ts", "part_022"}
Abilities == {"reality", "history", "logic"}
Undefined == "undefined"
\* animationFrameId === undefined (timer ids start at 1)
NoTimer == 0
NoState == <<-1, -1>>

\* amounts by which the clock advances between two events
TimeSteps == {TimerDelay, 2 * TimerDelay}

VARIABLES
  impl,             \* which worker source runs
  booted,           \* the module-level try/catch has run
  logic,            \* "ok" when new GameLogic() succeeded, else Undefined
  running,          \* let running
  lastTime,         \* let lastTime
  animationFrameId, \* let animationFrameId
  pending,          \* timers set by setTimeout and not yet fired or cleared
  now,              \* the clock read by performance.now() / Date.now()
  closed,           \* self.close() was called
  logicRunning,     \* logic.running
  simTicks,         \* GameLogic state: updates applied
  simInputs,        \* GameLogic state: abilities / nukes applied
  step,             \* what the last handler or callback did
  paused,           \* history: PAUSE processed, no START / RESUME since
  resumeAt,         \* history: clock read when a RESUME ended a stop, -1 if none
  errorStop,        \* history: a tick reported ERROR, no START / RESUME since
  sessionActive,    \* history: a START succeeded; no error, game end or
                    \* TERMINATE since
  pausedInputs,     \* history: ability / nuke calls that completed while
                    \* paused, since the last PAUSE, START or computed tick
  dateSkew          \* Date.now() minus the monotonic clock, in ms

workerVars == <<impl, booted, logic, running, lastTime, animationFrameId,
                pending, now, closed, logicRunning, simTicks, simInputs,
                step, paused, resumeAt, errorStop,
                sessionActive, pausedInputs, dateSkew>>

\* the Game component (main thread)
VARIABLES
  uiNow,             \* the main thread's clock, ms
  workerRef,         \* workerRef.current is set
  mountedAt,         \* history: clock when workerRef.current was set, -1 before
  startInitiatedRef, \* startInitiatedRef.current
  screen,            \* uiRef.current.screen
  uiTimers,          \* pending setTimeout callbacks of handleStartLogic
  chains,            \* history: one record per start request
  workerRunning      \* the worker's running flag once it has handled every
                     \* command the component posted so far

startVars == <<uiNow, workerRef, mountedAt, startInitiatedRef, screen,
               uiTimers, chains, workerRunning>>

\* the level store
VARIABLES
  currentLevel,
  coherence,
  peakCoherence,
  tension            \* in hundredths: 12 is 0.12

levelVars == <<currentLevel, coherence, peakCoherence, tension>>

\* the game board: sphere component, game-over overlay, game store, seed store
VARIABLES
  explodedRef,       \* AISphere: explodedRef.current
  observerAttached,  \* AISphere: its render observer is registered
  spheresDisposed,   \* AISphere: outer and inner sphere were disposed
  showGameOver,      \* GameBoard: showGameOver
  phase,             \* game store: phase
  seedString,        \* seed store: seedString (0 is the empty string)
  lastSeedUsed,      \* seed store: lastSeedUsed (0 is the empty string)
  rng,               \* seed store: rng, the generator and its position
  session,           \* history: restarts so far
  shatters,          \* history: shatter transitions in this session
  sawCritical,       \* history: a frame of this session had tension >= 0.99
  genSeed,           \* history: seed drawn by the last generateNewSeed
  genDraws,          \* history: outputs drawn from the generator it installed
  replayDraws,       \* history: outputs drawn from the replayed generator
  replayed,          \* history: the current generator came from replayLastSeed
  gameStep           \* history: the last two game store calls

boardVars == <<explodedRef, observerAttached, spheresDisposed, showGameOver,
               phase, seedString, lastSeedUsed, rng, session, shatters,
               sawCritical, genSeed, genDraws, replayDraws, replayed,
               gameStep>>

\* the pattern stabilizer and the input store
VARIABLES
  activePatterns,    \* activePatterns.current: <<[id, progress, speed]>>
  idCounter,         \* idCounter.current
  heldKeycaps,       \* input store: heldKeycaps
  isAnyHeld,         \* input store: isAnyHeld
  lastKeyOp,         \* history: index -> the last call that concerned it
  psMounted,         \* the effect is mounted (observer registered)
  removals,          \* history: id -> times spliced out by the frame loop
  disposals,         \* history: id -> times its particle system was disposed
  frameRec,          \* what the last frame did: the tension and coherence
                     \* it began with, the patterns it removed, the id of
                     \* the pattern it spawned (-1 if none)
  patternEntities    \* entities of the miniplex world's patterns archetype

patternVars == <<activePatterns, idCounter, heldKeycaps, isAnyHeld,
                 lastKeyOp, psMounted, removals, disposals, frameRec,
                 patternEntities>>

\* the AI director
VARIABLES
  dirState,          \* the current state of the director's state machine
  panic,             \* performance.panic
  dirStep            \* what the last update() did

directorVars == <<dirState, panic, dirStep>>

\* the governor's decision functions
VARIABLES
  snapshot,          \* GameSnapshot: panic, nukeReady, enemyCounters
  config,            \* ResolvedConfig
  draws,             \* the values the rng will return, in order
  decision,          \* result of the last decideAction call, with its trace
  best               \* result of the last bestCounterKey call

governorVars == <<snapshot, config, draws, decision, best>>

\* the audio store (Variant A)
VARIABLES
  isInitialized,     \* the store's flag
  audioTension,      \* the store's tension, in hundredths
  initializing,      \* initialize() calls suspended at an await
  updating,          \* updateTension() calls suspended at await import('tone')
  shuttingDown,      \* shutdown() calls suspended at await import('tone')
  transport,         \* Tone.getTransport(): started, bpm in hundredths
  audioStep          \* what the last call or continuation did

audioVars == <<isInitialized, audioTension, initializing, updating,
               shuttingDown, transport, audioStep>>

\* AdaptiveMusic (Variant B)
VARIABLES
  musicInitialized,  \* init() completed, destroy() not called since
  isPlaying,         \* between start() and stop()
  musicPanic,        \* the clamped panic kept by setPanic
  lastBpmPanic,      \* the panic the transport's BPM was last ramped for
  rampedAt,          \* history: panic of the last issued ramp, -1 if none
  musicStep          \* what the last call did

musicVars == <<musicInitialized, isPlaying, musicPanic, lastBpmPanic,
               rampedAt, musicStep>>

\* the boss AI (Variant B)
VARIABLES
  attackCooldown,    \* BossAI.attackCooldown, in tenths of a second
  bossState,         \* BossAI.state: patterns, hp (maxHp is 100), aggression
  bossStep           \* what the last update's think cycle computed

bossVars == <<attackCooldown, bossState, bossStep>>

\* the SPSEnemies particle pool (Variant A)
VARIABLES
  spsMounted,        \* the effect ran and its cleanup did not
  particles,         \* SPS.particles: alive, position.y in hundredths
  activations,       \* particles activated so far
  retired,           \* history: indices that were deactivated at least once
  poolStep           \* what the last frame or effect did

poolVars == <<spsMounted, particles, activations, retired, poolStep>>

\* the HeadExplosion component (Variant B)
VARIABLES
  active,            \* the prop of the last committed render
  instanceMounted,   \* instanceRef.current is set (the group is rendered)
  effectPending,     \* the effect of the last commit has not run yet
  activeRef,         \* activeRef.current
  completedRef,      \* completedRef.current
  startTimeRef,      \* startTimeRef.current, in ms
  elapsedTime,       \* clock.elapsedTime, in ms
  completions,       \* history: onComplete calls since the activation began
  dueFrames,         \* history: frames of this activation run at >= 2500 ms
  explosionStep      \* what the last render, effect or frame did

explosionVars == <<active, instanceMounted, effectPending, activeRef,
                   completedRef, startTimeRef, elapsedTime, completions,
                   dueFrames, explosionStep>>

\* high score persistence (Variant A)
VARIABLES
  storage,           \* the environment: "ok", "unavailable" or "noWindow"
  stored,            \* localStorage item under STORAGE_KEY
  loaded             \* what the last loadHighScore / saveHighScore call did

scoreVars == <<storage, stored, loaded>>

\* the ECS world's dream entities (Variant A)
VARIABLES
  world,             \* the entities added to the miniplex world, in order
  dreamStep          \* what the last spawnDreamFromSeed call did

dreamVars == <<world, dreamStep>>

\* the SpatialAudio component
VARIABLES
  saMounted,         \* the effect ran and its cleanup has not
  synthsRef,         \* synthsRef.current: NoSynths or the call whose nodes it holds
  disposedRef,       \* disposedRef.current
  synthCalls,        \* the initSynths calls that passed the guard, in order
  disposedSets,      \* history: the calls whose nodes the cleanup disposed
  spatialStep        \* what the last step of the component did

spatialVars == <<saMounted, synthsRef, disposedRef, synthCalls, disposedSets,
                 spatialStep>>

\* the parts added after the governor
extraVars == <<audioVars, musicVars, bossVars, poolVars, explosionVars, scoreVars, dreamVars, spatialVars>>

vars == <<workerVars, startVars, levelVars, boardVars, patternVars,
          directorVars, governorVars, extraVars>>

\* what the actions of one part leave alone
workerRest == <<startVars, levelVars, boardVars, patternVars, directorVars,
                governorVars, extraVars>>
startRest == <<workerVars, levelVars, boardVars, patternVars, directorVars,
               governorVars, extraVars>>
levelRest == <<workerVars, startVars, boardVars, patternVars, directorVars,
               governorVars, extraVars>>
coreVars == <<workerVars, startVars, levelVars, boardVars, patternVars,
              directorVars, governorVars>>
audioRest == <<coreVars, musicVars, bossVars, poolVars, explosionVars,
    scoreVars, dreamVars, spatialVars>>
musicRest == <<coreVars, audioVars, bossVars, poolVars, explosionVars,
    scoreVars, dreamVars, spatialVars>>
bossRest == <<coreVars, audioVars, musicVars, poolVars, explosionVars,
    scoreVars, dreamVars, spatialVars>>
poolRest == <<coreVars, audioVars, musicVars, bossVars, explosionVars,
    scoreVars, dreamVars, spatialVars>>
explosionRest == <<coreVars, audioVars, musicVars, bossVars, poolVars,
    scoreVars, dreamVars, spatialVars>>
scoreRest == <<coreVars, audioVars, musicVars, bossVars, poolVars,
    explosionVars, dreamVars, spatialVars>>
dreamRest == <<coreVars, audioVars, musicVars, bossVars, poolVars,
    explosionVars, scoreVars, spatialVars>>
spatialRest == <<coreVars, audioVars, musicVars, bossVars, poolVars,
    explosionVars, scoreVars, dreamVars>>

(***************************************************************************)
(* Messages posted to the main thread.                                     *)
(***************************************************************************)
ReadyMsg == [type |-> "READY", state |-> NoState]
ErrorMsg == [type |-> "ERROR", state |-> NoState]
StateMsg(s) == [type |-> "STATE", state |-> s]

\* logic.getState(): the snapshot of the simulation
Snapshot(ticks, inputs) == <<ticks, inputs>>
getState == Snapshot(simTicks, simInputs)

NoDt == -1
\* findEnemyAt found nothing (null)
NoHit == [counter |-> "none", encrypted |-> FALSE]

\* what a handler did: the GameLogic methods it invoked, the messages it
\* posted, whether its try block threw, what findEnemyAt returned, and for
\* a tick the frame factor and the instant of the RESUME it is the first
\* tick after (-1 if it is not), how many pending timers a START cancelled,
\* whether a tick ran while no session was active, and for the first tick
\* after a RESUME the calls that changed the simulation during the pause
StepRec(op) ==
  [op |-> op, calls |-> <<>>, posted |-> <<>>, threw |-> FALSE, dt |-> NoDt,
   hit |-> NoHit, anchor |-> -1, cleared |-> 0, idle |-> FALSE,
   pausedInputs |-> 0]

Min(a, b) == IF a <= b THEN a ELSE b
Max(a, b) == IF a >= b THEN a ELSE b

\* the clamp of the running implementation
Clamp == IF impl = "worker_ts" THEN ClampPerf ELSE ClampDate

\* the clock the running implementation reads: performance.now(), which is
\* monotonic, in game.worker.ts; Date.now(), which follows adjustments of
\* the system time, in part_022
Clock == IF impl = "worker_ts" THEN now ELSE now + dateSkew

\* Math.min((now - lastTime) / 16.67, clamp), times 1667
FrameFactor(t, last) == Min((t - last) * 100, Clamp * FrameMs100)

(***************************************************************************)
(* Timers.  A timer is [id, due].  setTimeout returns an id that no live   *)
(* timer and no variable holds; ids that nothing refers to are reused.     *)
(***************************************************************************)
FreshId ==
  LET used == {t.id : t \in pending} \cup {animationFrameId}
  IN  CHOOSE i \in 1..(Cardinality(pending) + 2) :
        /\ i \notin used
        /\ \A j \in 1..(Cardinality(pending) + 2) : j \notin used => i <= j

\* clearTimeout(id)
ClearTimeout(timers, id) == {t \in timers : t.id # id}

ClearLoopTimerKept(timers) == timers

\* if (animationFrameId !== undefined) clearTimeout(animationFrameId)
ClearLoopTimer(timers) ==
  IF animationFrameId # NoTimer THEN ClearTimeout(timers, animationFrameId)
  ELSE timers

\* scheduleLoop(), as the pair <<new animationFrameId, new timers>>
scheduleLoop(timers) ==
  <<FreshId, timers \cup {[id |-> FreshId, due |-> now + TimerDelay]}>>

StartInit ==
  /\ uiNow = 0
  /\ workerRef = FALSE
  /\ mountedAt = -1
  /\ startInitiatedRef = FALSE
  /\ screen = "start"
  /\ uiTimers = {}
  /\ chains = <<>>
  /\ workerRunning = FALSE

LevelInit ==
  /\ currentLevel = 1
  /\ coherence = 25
  /\ peakCoherence = 25
  /\ tension = 12

(***************************************************************************)
(* Initial states of the game board, the pattern stabilizer, the director  *)
(* and the governor (parts 4 to 7 below).                                  *)
(***************************************************************************)
\* the empty string of seedString / lastSeedUsed
EmptySeed == 0

\* the initial rng: () => Math.random()
NativeRng == [kind |-> "native", state |-> 0]

NoGameStep == [op |-> "none", before |-> "none", before2 |-> "none"]

BoardInit ==
  /\ explodedRef = FALSE
  /\ observerAttached = TRUE
  /\ spheresDisposed = FALSE
  /\ showGameOver = FALSE
  /\ phase = "title"
  /\ seedString = EmptySeed
  /\ lastSeedUsed = EmptySeed
  /\ rng = NativeRng
  /\ session = 0
  /\ shatters = 0
  /\ sawCritical = FALSE
  /\ genSeed = EmptySeed
  /\ genDraws = <<>>
  /\ replayDraws = <<>>
  /\ replayed = FALSE
  /\ gameStep = NoGameStep

NoFrame == [cur |-> -1, coherenceBefore |-> -1, removed |-> {},
            spawned |-> -1]

\* keycap indices given to pressKeycap / releaseKeycap
Keycaps == {0, 1}

PatternInit ==
  /\ activePatterns = <<>>
  /\ idCounter = 0
  /\ heldKeycaps = {}
  /\ isAnyHeld = FALSE
  /\ lastKeyOp = [index \in Keycaps |-> "none"]
  /\ psMounted = TRUE
  /\ removals = [id \in 0..(MaxSpawns - 1) |-> <<>>]
  /\ disposals = [id \in 0..(MaxSpawns - 1) |-> 0]
  /\ frameRec = NoFrame
  /\ patternEntities = 0

NoUpdate == [from |-> "none", panic |-> -1, surge |-> FALSE, to |-> "none"]

DirectorInit ==
  /\ dirState = "Building"
  /\ panic = 0
  /\ dirStep = NoUpdate

Null == [type |-> "null", key |-> "none"]
NoDecision == [action |-> Null, used |-> -1, path |-> "none"]
NoBest == "none"

GovernorInit ==
  /\ snapshot = [panic |-> 50, nukeReady |-> FALSE, enemyCounters |-> <<>>]
  /\ config = [useSpecials |-> TRUE, nukeThreshold |-> 50, accuracy |-> 100,
               aggressiveness |-> 100]
  /\ draws = <<0, 0, 0>>
  /\ decision = NoDecision
  /\ best = NoBest

\* transport.bpm.value before anyone wrote it (Tone's default 120)
DefaultBpm == 12000

NoAudioStep == [op |-> "none", transport |-> <<>>, threw |-> FALSE,
                initialized |-> FALSE]

AudioInit ==
  /\ isInitialized = FALSE
  /\ audioTension = 12
  /\ initializing = 0
  /\ updating = <<>>
  /\ shuttingDown = 0
  /\ transport = [started |-> FALSE, bpm |-> DefaultBpm]
  /\ audioStep = NoAudioStep

NoMusicStep == [op |-> "none", input |-> 0, playing |-> FALSE, ref |-> -1,
                ramped |-> FALSE, transport |-> <<>>, threw |-> FALSE]

MusicInit ==
  /\ musicInitialized = FALSE
  /\ isPlaying = FALSE
  /\ musicPanic = 0
  /\ lastBpmPanic = 0
  /\ rampedAt = -1
  /\ musicStep = NoMusicStep

Evaluators == {"Burst", "Sweep", "Spiral", "Reposition", "Summon", "Rage"}

NoBossStep == [op |-> "none", cooldown |-> 0, patterns |-> {},
               desirability |-> [e \in Evaluators |-> 0],
               selected |-> "none"]

\* new BossAI({hp: 100, maxHp: 100, aggression: 0.5,
\*             patterns: ['burst', 'sweep', 'spiral'], ...})
BossInit ==
  /\ attackCooldown = 0
  /\ bossState = [patterns |-> {"burst", "sweep", "spiral"}, hp |-> 100,
                  aggression |-> 50]
  /\ bossStep = NoBossStep

NoPoolStep == [op |-> "none", size |-> 0, died |-> {}, activated |-> 0,
               free |-> FALSE, rolled |-> FALSE]

PoolInit ==
  /\ spsMounted = FALSE
  /\ particles = <<>>
  /\ activations = 0
  /\ retired = {}
  /\ poolStep = NoPoolStep

NoExplosionStep == [op |-> "none", elapsed |-> -1, called |-> FALSE,
                    firstDue |-> FALSE]

\* the component mounted with active = false, its effect has run
ExplosionInit ==
  /\ active = FALSE
  /\ instanceMounted = FALSE
  /\ effectPending = FALSE
  /\ activeRef = FALSE
  /\ completedRef = FALSE
  /\ startTimeRef = 0
  /\ elapsedTime = 0
  /\ completions = 0
  /\ dueFrames = 0
  /\ explosionStep = NoExplosionStep

\* a JSON value of a field: missing, null, a number or a string
Missing == [t |-> "missing", n |-> 0, s |-> ""]
JNull == [t |-> "null", n |-> 0, s |-> ""]
Num(n) == [t |-> "num", n |-> n, s |-> ""]
Str(s) == [t |-> "str", n |-> 0, s |-> s]

NoFields == [peakCoherence |-> Missing, levelsSurvived |-> Missing,
             seed |-> Missing]

\* localStorage.getItem returns null
NoItem == [kind |-> "none", fields |-> NoFields]

\* const DEFAULT_HIGH_SCORE
DEFAULT_HIGH_SCORE == [peakCoherence |-> Num(0), levelsSurvived |-> Num(0),
                       seed |-> Str("")]

NoLoad == [op |-> "none", threw |-> FALSE, caught |-> FALSE,
           result |-> DEFAULT_HIGH_SCORE, raw |-> NoItem]

ScoreInit ==
  /\ storage = "ok"
  /\ stored = NoItem
  /\ loaded = NoLoad

NoDream == [op |-> "none", seed |-> <<>>, seedHash |-> 0, size |-> 0]

DreamInit ==
  /\ world = <<>>
  /\ dreamStep = NoDream

\* initSynths calls of one mount that get past the guard
MaxSynthCalls == 2

\* synthsRef.current === null
NoSynths == 0

\* the effect has run: the listeners and the store subscription are in place
SpatialInit ==
  /\ saMounted = TRUE
  /\ synthsRef = NoSynths
  /\ disposedRef = FALSE
  /\ synthCalls = <<>>
  /\ disposedSets = {}
  /\ spatialStep = [op |-> "mount", started |-> FALSE]

Init ==
  /\ StartInit
  /\ LevelInit
  /\ impl \in Impls
  /\ booted = FALSE
  /\ logic = Undefined
  /\ running = FALSE
  /\ lastTime = 0
  /\ animationFrameId = NoTimer
  /\ pending = {}
  /\ now = 0
  /\ closed = FALSE
  /\ logicRunning = FALSE
  /\ simTicks = 0
  /\ simInputs = 0
  /\ step = [op |-> "none", calls |-> <<>>, posted |-> <<>>, threw |-> FALSE,
             dt |-> NoDt, hit |-> NoHit, anchor |-> -1, cleared |-> 0,
             idle |-> FALSE, pausedInputs |-> 0]
  /\ paused = FALSE
  /\ resumeAt = -1
  /\ errorStop = FALSE
  /\ sessionActive = FALSE
  /\ pausedInputs = 0
  /\ dateSkew = 0
  /\ BoardInit
  /\ PatternInit
  /\ DirectorInit
  /\ GovernorInit
  /\ AudioInit
  /\ MusicInit
  /\ BossInit
  /\ PoolInit
  /\ ExplosionInit
  /\ ScoreInit
  /\ DreamInit
  /\ SpatialInit

(***************************************************************************)
(* Module start-up: try { logic = new GameLogic(); post READY }            *)
(*                  catch { post ERROR }                                   *)
(***************************************************************************)
InitPostsReadyAlways(throws) == <<ReadyMsg>>

\* the message posted by the start-up block
InitPosts(throws) == IF throws THEN <<ErrorMsg>> ELSE <<ReadyMsg>>

WorkerInit ==
  /\ UNCHANGED workerRest
  /\ ~booted
  /\ booted' = TRUE
  /\ \E throws \in BOOLEAN :
       /\ logic' = IF throws THEN Undefined ELSE "ok"
       /\ step' = [StepRec("init") EXCEPT !.posted = InitPosts(throws),
                                          !.threw = throws]
  /\ UNCHANGED <<impl, dateSkew, running, lastTime, animationFrameId, pending, now,
                 closed, logicRunning, simTicks, simInputs, paused,
                 resumeAt, errorStop,
                 sessionActive, pausedInputs>>

\* the clock advances; nothing else happens
Advance ==
  /\ UNCHANGED workerRest
  /\ \E d \in TimeSteps :
       /\ now + d <= MaxTime
       /\ now' = now + d
  /\ UNCHANGED <<impl, dateSkew, booted, logic, running, lastTime, animationFrameId,
                 pending, closed, logicRunning, simTicks, simInputs, step,
                 paused, resumeAt, errorStop,
                 sessionActive, pausedInputs>>

\* amounts by which the system time is off after an adjustment, in ms
Skews == {-2 * TimerDelay}

\* the system time is set back (NTP step, manual change); only the worker
\* that reads Date.now() sees it, and timers are not affected
ClockAdjust ==
  /\ UNCHANGED workerRest
  /\ impl = "part_022"
  /\ dateSkew = 0
  /\ \E skew \in Skews : dateSkew' = skew
  /\ UNCHANGED <<impl, booted, logic, running, lastTime, animationFrameId,
                 pending, now, closed, logicRunning, simTicks, simInputs,
                 step, paused, resumeAt, errorStop, sessionActive,
                 pausedInputs>>

(***************************************************************************)
(* self.onmessage.  A command is delivered while the worker is open.       *)
(***************************************************************************)
Delivered == booted /\ ~closed

\* game.worker.ts: if (!logic) return
EarlyReturn == impl = "worker_ts" /\ logic = Undefined

\* the early return: nothing changes
Ignore(op) ==
  /\ step' = StepRec(op)
  /\ UNCHANGED <<impl, dateSkew, booted, logic, running, lastTime, animationFrameId,
                 pending, now, closed, logicRunning, simTicks, simInputs,
                 paused, resumeAt, errorStop,
                 sessionActive, pausedInputs>>

\* a method call on logic: on an undefined logic it is a TypeError and no
\* method runs; otherwise the method runs and may throw
Invoked(call) == IF logic = Undefined THEN <<>> ELSE <<call>>

\* the catch block of onmessage, entered with the timers as they are then
HandlerCatch(op, calls, timers, hit) ==
  /\ running' = FALSE
  /\ pending' = ClearLoopTimer(timers)
  /\ sessionActive' = FALSE
  /\ step' = [StepRec(op) EXCEPT !.calls = calls, !.posted = <<ErrorMsg>>,
                                 !.threw = TRUE, !.hit = hit]

\* case 'START'
OnStart ==
  /\ UNCHANGED workerRest
  /\ Delivered
  /\ \E endless \in BOOLEAN, throws \in BOOLEAN :
       IF EarlyReturn THEN Ignore("START")
       ELSE LET cleared == ClearLoopTimer(pending)
                call == IF endless THEN <<"startEndlessMode", "">>
                        ELSE <<"start", "seed">>
                sched == scheduleLoop(cleared)
            IN  /\ paused' = FALSE
                /\ errorStop' = FALSE
                /\ resumeAt' = -1
                /\ pausedInputs' = 0
                /\ IF logic = Undefined \/ throws
                   THEN /\ HandlerCatch("START", Invoked(call), cleared, NoHit)
                        /\ UNCHANGED <<lastTime, animationFrameId,
                                       logicRunning, simTicks, simInputs>>
                   ELSE /\ running' = TRUE
                        /\ logicRunning' = TRUE
                        /\ simTicks' = 0
                        /\ simInputs' = 0
                        /\ lastTime' = Clock
                        /\ animationFrameId' = sched[1]
                        /\ pending' = sched[2]
                        /\ sessionActive' = TRUE
                        /\ step' = [StepRec("START") EXCEPT
                                      !.calls = <<call>>,
                                      !.cleared = Cardinality(pending)
                                                  - Cardinality(cleared)]
                /\ UNCHANGED <<impl, dateSkew, booted, logic, now, closed>>

OnPauseDropped ==
  /\ UNCHANGED workerRest
  /\ Delivered
  /\ IF EarlyReturn THEN Ignore("PAUSE")
     ELSE /\ paused' = TRUE
          /\ resumeAt' = -1
          /\ step' = StepRec("PAUSE")
          /\ UNCHANGED <<impl, dateSkew, booted, logic, running, pending, lastTime,
                         animationFrameId, now, closed, logicRunning,
                         simTicks, simInputs, errorStop,
                 sessionActive, pausedInputs>>

\* case 'PAUSE'
OnPause ==
  /\ UNCHANGED workerRest
  /\ Delivered
  /\ IF EarlyReturn THEN Ignore("PAUSE")
     ELSE /\ running' = FALSE
          /\ pending' = ClearLoopTimer(pending)
          /\ paused' = TRUE
          /\ resumeAt' = -1
          /\ pausedInputs' = IF paused THEN pausedInputs ELSE 0
          /\ step' = StepRec("PAUSE")
          /\ UNCHANGED <<impl, dateSkew, booted, logic, lastTime, animationFrameId,
                         now, closed, logicRunning, simTicks, simInputs,
                         errorStop,
                 sessionActive>>

ResumeAnchorKept == lastTime

\* RESUME: lastTime = performance.now() / Date.now()
ResumeAnchor == Clock

\* case 'RESUME'
OnResume ==
  /\ UNCHANGED workerRest
  /\ Delivered
  /\ IF EarlyReturn THEN Ignore("RESUME")
     ELSE LET sched == scheduleLoop(pending)
          IN  /\ paused' = FALSE
              /\ errorStop' = FALSE
              /\ step' = StepRec("RESUME")
              /\ IF ~running
                 THEN /\ running' = TRUE
                      /\ lastTime' = ResumeAnchor
                      /\ animationFrameId' = sched[1]
                      /\ pending' = sched[2]
                      /\ resumeAt' = Clock
                 ELSE UNCHANGED <<running, lastTime, animationFrameId,
                                  pending, resumeAt>>
              /\ UNCHANGED <<impl, dateSkew, booted, logic, now, closed, logicRunning,
                             simTicks, simInputs, sessionActive, pausedInputs>>

\* logic.triggerAbility(a) / logic.triggerNuke() called by the handler of
\* command op after the calls pre; a call that returns has changed the
\* simulation
CallLogic(op, pre, call, throws, hit) ==
  /\ IF logic = Undefined \/ throws
     THEN /\ HandlerCatch(op, pre \o Invoked(call), pending, hit)
          /\ UNCHANGED <<simInputs, pausedInputs>>
     ELSE /\ simInputs < MaxInputs
          /\ simInputs' = simInputs + 1
          /\ step' = [StepRec(op) EXCEPT !.calls = pre \o <<call>>,
                                         !.hit = hit]
          /\ pausedInputs' = IF paused THEN pausedInputs + 1
                              ELSE pausedInputs
          /\ UNCHANGED <<running, pending, sessionActive>>
  /\ UNCHANGED <<impl, dateSkew, booted, logic, lastTime, animationFrameId, now,
                 closed, logicRunning, simTicks, paused, resumeAt,
                 errorStop>>

\* a case that changes nothing
NoCall(op, calls, hit) ==
  /\ step' = [StepRec(op) EXCEPT !.calls = calls, !.hit = hit]
  /\ UNCHANGED <<impl, dateSkew, booted, logic, running, lastTime, animationFrameId,
                 pending, now, closed, logicRunning, simTicks, simInputs,
                 paused, resumeAt, errorStop,
                 sessionActive, pausedInputs>>

Keys == {"1", "2", "3", "q", "Q", "x"}

\* case 'INPUT'
OnInput ==
  /\ UNCHANGED workerRest
  /\ Delivered
  /\ \E key \in Keys, throws \in BOOLEAN :
       IF EarlyReturn THEN Ignore("INPUT")
       ELSE IF key = "1"
            THEN CallLogic("INPUT", <<>>, <<"triggerAbility", "reality">>,
                           throws, NoHit)
       ELSE IF key = "2"
            THEN CallLogic("INPUT", <<>>, <<"triggerAbility", "history">>,
                           throws, NoHit)
       ELSE IF key = "3"
            THEN CallLogic("INPUT", <<>>, <<"triggerAbility", "logic">>,
                           throws, NoHit)
       ELSE IF key = "q" \/ key = "Q"
            THEN CallLogic("INPUT", <<>>, <<"triggerNuke", "">>, throws,
                           NoHit)
       ELSE NoCall("INPUT", <<>>, NoHit)

\* case 'ABILITY'
OnAbility ==
  /\ UNCHANGED workerRest
  /\ Delivered
  /\ \E ability \in Abilities, throws \in BOOLEAN :
       IF EarlyReturn THEN Ignore("ABILITY")
       ELSE CallLogic("ABILITY", <<>>, <<"triggerAbility", ability>>, throws,
                      NoHit)

\* case 'NUKE'
OnNuke ==
  /\ UNCHANGED workerRest
  /\ Delivered
  /\ \E throws \in BOOLEAN :
       IF EarlyReturn THEN Ignore("NUKE")
       ELSE CallLogic("NUKE", <<>>, <<"triggerNuke", "">>, throws, NoHit)

\* what logic.findEnemyAt(x, y) can return: no enemy, or an enemy with its
\* counter type and encrypted flag
Enemies == [counter : Abilities, encrypted : BOOLEAN]
HitResults == {NoHit} \cup Enemies

FindCall == <<"findEnemyAt", "">>

ClickCountersAnyEnemy(enemy) == enemy # NoHit

\* if (enemy && !enemy.encrypted)
ClickCounters(enemy) == enemy # NoHit /\ ~enemy.encrypted

\* case 'CLICK'
OnClick ==
  /\ UNCHANGED workerRest
  /\ Delivered
  /\ \E enemy \in HitResults, findThrows \in BOOLEAN, throws \in BOOLEAN :
       IF EarlyReturn THEN Ignore("CLICK")
       ELSE IF logic = Undefined \/ findThrows
            THEN /\ HandlerCatch("CLICK", Invoked(FindCall), pending, NoHit)
                 /\ UNCHANGED <<impl, dateSkew, booted, logic, lastTime,
                                animationFrameId, now, closed, logicRunning,
                                simTicks, simInputs, paused, resumeAt,
                                errorStop, pausedInputs>>
       ELSE IF ClickCounters(enemy)
            THEN CallLogic("CLICK", <<FindCall>>,
                           <<"triggerAbility", enemy.counter>>, throws, enemy)
       ELSE NoCall("CLICK", <<FindCall>>, enemy)

OnTerminateCloseOnly ==
  /\ UNCHANGED workerRest
  /\ Delivered
  /\ IF EarlyReturn THEN Ignore("TERMINATE")
     ELSE /\ closed' = TRUE
          /\ step' = StepRec("TERMINATE")
          /\ UNCHANGED <<impl, dateSkew, booted, logic, running, pending, lastTime,
                         animationFrameId, now, logicRunning, simTicks,
                         simInputs, paused, resumeAt, errorStop,
                 sessionActive, pausedInputs>>

\* case 'TERMINATE': self.close() discards the worker's pending tasks and
\* stops the delivery of messages
OnTerminate ==
  /\ UNCHANGED workerRest
  /\ Delivered
  /\ IF EarlyReturn THEN Ignore("TERMINATE")
     ELSE /\ running' = FALSE
          /\ pending' = ClearLoopTimer(pending)
          /\ closed' = TRUE
          /\ sessionActive' = FALSE
          /\ step' = StepRec("TERMINATE")
          /\ UNCHANGED <<impl, dateSkew, booted, logic, lastTime, animationFrameId,
                         now, logicRunning, simTicks, simInputs, paused,
                         resumeAt, errorStop, pausedInputs>>

\* case 'PING' (part_022 only; game.worker.ts has no such case)
OnPing ==
  /\ UNCHANGED workerRest
  /\ Delivered
  /\ IF EarlyReturn THEN Ignore("PING")
     ELSE /\ step' = [StepRec("PING") EXCEPT
                        !.posted = IF impl = "part_022" THEN <<ReadyMsg>>
                                   ELSE <<>>]
          /\ UNCHANGED <<impl, dateSkew, booted, logic, running, lastTime,
                         animationFrameId, pending, now, closed,
                         logicRunning, simTicks, simInputs, paused,
                         resumeAt, errorStop,
                 sessionActive, pausedInputs>>

\* a command sent to a closed worker is never handled
SentAfterClose ==
  /\ UNCHANGED workerRest
  /\ closed
  /\ step.op # "dropped"
  /\ step' = StepRec("dropped")
  /\ UNCHANGED <<impl, dateSkew, booted, logic, running, lastTime, animationFrameId,
                 pending, now, closed, logicRunning, simTicks, simInputs,
                 paused, resumeAt, errorStop,
                 sessionActive, pausedInputs>>

(***************************************************************************)
(* The timer callback () => loop(now).  outcome: "ok", "updateThrows",     *)
(* "getStateThrows"; over says whether the update ended the game           *)
(* (logic.running false afterwards).                                       *)
(***************************************************************************)
TickOutcomes == {"ok", "updateThrows", "getStateThrows"}

TickStateStale(ticksAfter) == Snapshot(ticksAfter - 1, simInputs)

\* const state = logic.getState(), read after logic.update returned
TickState(ticksAfter) == Snapshot(ticksAfter, simInputs)

CatchRunningKept == running

\* the catch block of loop: running = false
CatchRunning == FALSE

loop(t, outcome, over) ==
  LET fired == pending \ {t}
      dt == FrameFactor(Clock, lastTime)
      base == [StepRec("tick") EXCEPT !.dt = dt, !.anchor = resumeAt,
                                      !.idle = ~sessionActive,
                                      !.pausedInputs =
                                        IF resumeAt # -1 THEN pausedInputs
                                        ELSE 0]
      sched == scheduleLoop(fired)
  IN
  IF ~running
  THEN /\ pending' = fired
       /\ step' = StepRec("tick")
       /\ UNCHANGED <<running, lastTime, animationFrameId, logicRunning,
                      simTicks, errorStop, resumeAt, sessionActive, pausedInputs>>
  ELSE
    /\ lastTime' = Clock
    /\ resumeAt' = -1
    /\ pausedInputs' = 0
    /\ IF logic = Undefined \/ outcome = "updateThrows"
       THEN /\ running' = CatchRunning
            /\ pending' = fired
            /\ errorStop' = TRUE
            /\ sessionActive' = FALSE
            /\ step' = [base EXCEPT !.calls = Invoked(<<"update", "">>),
                                    !.posted = <<ErrorMsg>>,
                                    !.threw = TRUE]
            /\ UNCHANGED <<animationFrameId, logicRunning, simTicks>>
       ELSE
         /\ simTicks < MaxTicks
         /\ simTicks' = simTicks + 1
         /\ logicRunning' = (logicRunning /\ ~over)
         /\ IF outcome = "getStateThrows"
            THEN /\ running' = CatchRunning
                 /\ pending' = fired
                 /\ errorStop' = TRUE
                 /\ sessionActive' = FALSE
                 /\ step' = [base EXCEPT
                               !.calls = <<<<"update", "">>,  <<"getState", "">>>>,
                               !.posted = <<ErrorMsg>>,
                               !.threw = TRUE]
                 /\ UNCHANGED animationFrameId
            ELSE /\ step' = [base EXCEPT
                               !.calls = <<<<"update", "">>,  <<"getState", "">>>>,
                               !.posted = <<StateMsg(TickState(simTicks + 1))>>]
                 /\ UNCHANGED errorStop
                 /\ sessionActive' = (sessionActive /\ logicRunning')
                 /\ IF logicRunning'
                    THEN /\ animationFrameId' = sched[1]
                         /\ pending' = sched[2]
                         /\ UNCHANGED running
                    ELSE /\ running' = FALSE
                         /\ pending' = fired
                         /\ UNCHANGED animationFrameId

Tick ==
  /\ UNCHANGED workerRest
  /\ booted /\ ~closed
  /\ \E t \in pending, outcome \in TickOutcomes, over \in BOOLEAN :
       /\ now >= t.due
       /\ loop(t, outcome, over)
  /\ UNCHANGED <<impl, dateSkew, booted, logic, now, closed, simInputs, paused>>

Next ==
  \/ WorkerInit
  \/ Advance
  \/ OnStart
  \/ OnPause
  \/ OnResume
  \/ OnInput
  \/ OnAbility
  \/ OnNuke
  \/ OnClick
  \/ OnTerminate
  \/ OnPing
  \/ SentAfterClose
  \/ Tick

Spec == Init /\ [][Next]_vars

\* the worker's loop under an adjustment of the system time
NextClock ==
  \/ WorkerInit
  \/ Advance
  \/ ClockAdjust
  \/ OnStart
  \/ OnPause
  \/ OnResume
  \/ Tick

SpecClock == Init /\ [][NextClock]_vars

(***************************************************************************)
(* The Game component: handleStartLogic and its attemptStart polling.      *)
(* A chain record is kept per start request: when it was made, its status  *)
(* ("polling", "posted", "gaveup", "aborted"), the retries argument of the *)
(* latest attemptStart call, the number of START messages posted and when. *)
(***************************************************************************)
Screens == {"start", "playing", "paused", "gameover"}

\* uiReducer on START_GAME / START_ENDLESS, PAUSE, RESUME, GAME_OVER
uiReducer(s, action) ==
  CASE action = "START_GAME" -> "playing"
    [] action = "PAUSE" -> "paused"
    [] action = "RESUME" -> "playing"
    [] action = "GAME_OVER" -> "gameover"
    [] OTHER -> s

\* self.onmessage of the worker, for a command that does not throw: the
\* value of running when the handler returns (START: running = true;
\* PAUSE: running = false; RESUME: if (!running) running = true)
Handled(command, wasRunning) ==
  CASE command = "START" -> TRUE
    [] command = "PAUSE" -> FALSE
    [] command = "RESUME" -> TRUE
    [] OTHER -> wasRunning

\* workerRef.current?.postMessage({ type: command }), followed by the
\* worker's handling of the command
Post(command) ==
  IF workerRef THEN Handled(command, workerRunning) ELSE workerRunning

\* useEffect: const worker = new GameWorker(); workerRef.current = worker
MountWorker ==
  /\ UNCHANGED startRest
  /\ ~workerRef
  /\ workerRef' = TRUE
  /\ mountedAt' = uiNow
  /\ UNCHANGED <<uiNow, startInitiatedRef, screen, uiTimers, chains,
                 workerRunning>>

\* handleStartLogic, called from the start and game-over screens (space, F2,
\* F3 and the scene's start / retry / endless keys); throws: the audio
\* resume or the scene reset throws
handleStartLogic ==
  /\ UNCHANGED startRest
  /\ screen \in {"start", "gameover"}
  /\ Len(chains) < MaxRequests
  /\ ~startInitiatedRef
  /\ \E throws \in BOOLEAN :
       LET req == Len(chains) + 1
           safety == [kind |-> "safety", due |-> uiNow + SafetyDelay,
                      retries |-> 0, req |-> req]
           attempt == [kind |-> "attempt", due |-> uiNow + StartDelay,
                       retries |-> 0, req |-> req]
       IN  /\ screen' = uiReducer(screen, "START_GAME")
           /\ startInitiatedRef' = ~throws
           /\ uiTimers' = IF throws THEN uiTimers \cup {safety}
                          ELSE uiTimers \cup {safety, attempt}
           /\ chains' = Append(chains,
                          [requestedAt |-> uiNow,
                           status |-> IF throws THEN "aborted" ELSE "polling",
                           retries |-> 0, posts |-> 0, postedAt |-> -1])
  /\ UNCHANGED <<uiNow, workerRef, mountedAt, workerRunning>>

MayRetryOffByOne(retries) == retries <= RetryLimit

\* else if (retries < 50)
MayRetry(retries) == retries < RetryLimit

\* attemptStart(retries), run by its timer
attemptStart ==
  /\ UNCHANGED startRest
  /\ \E t \in uiTimers :
       /\ t.kind = "attempt"
       /\ t.due <= uiNow
       /\ IF workerRef
          THEN /\ chains' = [chains EXCEPT ![t.req].status = "posted",
                                           ![t.req].posts = @ + 1,
                                           ![t.req].postedAt = uiNow]
               /\ uiTimers' = uiTimers \ {t}
               /\ workerRunning' = Handled("START", workerRunning)
          ELSE IF MayRetry(t.retries)
          THEN /\ chains' = [chains EXCEPT ![t.req].retries = t.retries + 1]
               /\ uiTimers' = (uiTimers \ {t}) \cup
                                {[kind |-> "attempt", due |-> uiNow + RetryDelay,
                                  retries |-> t.retries + 1, req |-> t.req]}
               /\ UNCHANGED workerRunning
          ELSE /\ chains' = [chains EXCEPT ![t.req].status = "gaveup"]
               /\ uiTimers' = uiTimers \ {t}
               /\ UNCHANGED workerRunning
  /\ UNCHANGED <<uiNow, workerRef, mountedAt, startInitiatedRef, screen>>

\* the safety timeout: release the lock if the game is not playing
SafetyTimeout ==
  /\ UNCHANGED startRest
  /\ \E t \in uiTimers :
       /\ t.kind = "safety"
       /\ t.due <= uiNow
       /\ uiTimers' = uiTimers \ {t}
       /\ startInitiatedRef' =
            IF screen # "playing" THEN FALSE ELSE startInitiatedRef
  /\ UNCHANGED <<uiNow, workerRef, mountedAt, screen, chains,
                 workerRunning>>

\* handlePause, reached from the playing screen
handlePause ==
  /\ UNCHANGED startRest
  /\ screen = "playing"
  /\ screen' = uiReducer(screen, "PAUSE")
  /\ workerRunning' = Post("PAUSE")
  /\ UNCHANGED <<uiNow, workerRef, mountedAt, startInitiatedRef, uiTimers,
                 chains>>

\* handleResume, reached from the paused screen
handleResume ==
  /\ UNCHANGED startRest
  /\ screen = "paused"
  /\ screen' = uiReducer(screen, "RESUME")
  /\ workerRunning' = Post("RESUME")
  /\ UNCHANGED <<uiNow, workerRef, mountedAt, startInitiatedRef, uiTimers,
                 chains>>

\* worker.onmessage with a GAME_OVER event, which a started worker can
\* send; the effect on [ui] then releases the start lock
GameOverEvent ==
  /\ UNCHANGED startRest
  /\ screen \in {"playing", "paused"}
  /\ \E r \in DOMAIN chains : chains[r].posts > 0
  /\ screen' = uiReducer(screen, "GAME_OVER")
  /\ startInitiatedRef' = FALSE
  /\ workerRunning' = FALSE
  /\ UNCHANGED <<uiNow, workerRef, mountedAt, uiTimers, chains>>

\* the due time of the timer that fires next
NextDue ==
  LET dues == {t.due : t \in uiTimers}
  IN  CHOOSE d \in dues : \A e \in dues : d <= e

\* the main thread's clock advances to the next timer that is due; a timer
\* fires at its due time
UiAdvance ==
  /\ UNCHANGED startRest
  /\ \A t \in uiTimers : t.due > uiNow
  /\ uiNow' = IF uiTimers # {} THEN NextDue ELSE uiNow + IdleStep
  /\ uiNow' <= UiMaxTime
  /\ UNCHANGED <<workerRef, mountedAt, startInitiatedRef, screen, uiTimers,
                 chains, workerRunning>>

NextStart ==
  \/ MountWorker
  \/ handleStartLogic
  \/ attemptStart
  \/ SafetyTimeout
  \/ handlePause
  \/ handleResume
  \/ GameOverEvent
  \/ UiAdvance

SpecStart == Init /\ [][NextStart]_vars

(***************************************************************************)
(* The level store.  coherence is kept as it is; tension in hundredths.    *)
(***************************************************************************)
\* arguments tried for addCoherence(amount)
Amounts == {-30, -3, 3, 8, 120}
\* arguments tried for setTension(value), in hundredths
TensionValues == {-50, 0, 34, 100, 250}

advanceLevel ==
  /\ UNCHANGED levelRest
  /\ currentLevel < MaxLevel
  /\ currentLevel' = currentLevel + 1
  /\ coherence' = Min(100, coherence + 8)
  /\ UNCHANGED <<peakCoherence, tension>>

addCoherence ==
  /\ UNCHANGED levelRest
  /\ \E amount \in Amounts :
       LET newCoherence == Min(100, coherence + amount)
       IN  /\ newCoherence >= -MaxDeficit
           /\ coherence' = newCoherence
           /\ peakCoherence' = Max(peakCoherence, newCoherence)
  /\ UNCHANGED <<currentLevel, tension>>

setTension ==
  /\ UNCHANGED levelRest
  /\ \E value \in TensionValues :
       tension' = Max(0, Min(100, value))
  /\ UNCHANGED <<currentLevel, coherence, peakCoherence>>

reset ==
  /\ UNCHANGED levelRest
  /\ currentLevel' = 1
  /\ coherence' = 25
  /\ peakCoherence' = 25
  /\ tension' = 12

NextLevel ==
  \/ advanceLevel
  \/ addCoherence
  \/ setTension
  \/ reset

SpecLevel == Init /\ [][NextLevel]_vars

(***************************************************************************)
(* Part 4 (specification SpecBoard): the game board.  The AISphere         *)
(* component (unnamed/part_017) registers one render observer when it      *)
(* mounts; the GameBoard (components/gameboard.tsx) shows the game-over    *)
(* overlay on the gameOver event and restarts from a click on it; the game *)
(* store (unnamed/part_024) holds the phase and the seed store             *)
(* (store/seed-store.ts) the session's random generator.                   *)
(***************************************************************************)
Phases == {"title", "playing", "paused", "gameover"}
\* raw seeds: Math.random().toString(36).slice(2) + Date.now().toString(36)
\* is never empty, the second summand has at least one digit
Seeds == 1..MaxSeeds
\* seedrandom(seed): a generator whose outputs are a function of the seed
\* and of the number of calls made so far (outputs in sixteenths)
seedrandom(seed) == [kind |-> "seeded", state |-> (7 * seed + 3) % 16]
\* the generator after one call; the call returns the new state
NextRng(g) == [g EXCEPT !.state = (5 * g.state + 3) % 16]

\* the i-th output of generator g
RECURSIVE OutputAt(_, _)
OutputAt(g, i) == IF i = 1 THEN NextRng(g).state ELSE OutputAt(NextRng(g), i - 1)

\* record of a game store call: the phase before it and, when the call
\* before it was togglePause too, the phase before that one
GameStep(op) ==
  [op |-> op, before |-> phase,
   before2 |-> IF op = "togglePause" /\ gameStep.op = "togglePause"
                 THEN gameStep.before ELSE "none"]

boardRest == <<workerVars, startVars, patternVars, directorVars, governorVars,
               extraVars>>
sphereVars == <<explodedRef, observerAttached, spheresDisposed, showGameOver,
                session, shatters, sawCritical>>
seedVars == <<seedString, lastSeedUsed, rng, genSeed, genDraws, replayDraws,
              replayed>>
gameVars == <<phase, gameStep>>

\* if (cur >= 0.99 && !explodedRef.current)
ShatterDue(cur, exploded) == cur >= 99 /\ ~exploded

\* The scene renders one frame: observers still registered run.  The
\* sphere's observer shatters at most once: it sets the flag, removes
\* itself, disposes both spheres and dispatches gameOver, whose listener
\* in GameBoard shows the overlay.
RenderFrame ==
  /\ UNCHANGED <<boardRest, levelVars, seedVars, gameVars, session>>
  /\ sawCritical' = (sawCritical \/ tension >= 99)
  /\ IF observerAttached /\ ShatterDue(tension, explodedRef)
       THEN /\ explodedRef' = TRUE
            /\ observerAttached' = FALSE
            /\ spheresDisposed' = TRUE
            /\ shatters' = shatters + 1
            /\ showGameOver' = TRUE
       ELSE UNCHANGED <<explodedRef, observerAttached, spheresDisposed,
                        shatters, showGameOver>>

\* set({seedString: rawSeed, rng, lastSeedUsed: rawSeed})
GenerateNewSeed(rawSeed) ==
  /\ seedString' = rawSeed
  /\ rng' = seedrandom(rawSeed)
  /\ lastSeedUsed' = rawSeed
  /\ genSeed' = rawSeed
  /\ genDraws' = <<>>
  /\ replayDraws' = <<>>
  /\ replayed' = FALSE

generateNewSeed ==
  /\ UNCHANGED <<boardRest, levelVars, sphereVars, gameVars>>
  /\ \E rawSeed \in Seeds : GenerateNewSeed(rawSeed)

ReplayRngContinue(seed, old) == old

\* const rng = seedrandom(lastSeedUsed)
ReplayRng(seed, old) == seedrandom(seed)

replayLastSeed ==
  /\ UNCHANGED <<boardRest, levelVars, sphereVars, gameVars>>
  /\ IF lastSeedUsed = EmptySeed
       THEN \E rawSeed \in Seeds : GenerateNewSeed(rawSeed)
       ELSE /\ rng' = ReplayRng(lastSeedUsed, rng)
            /\ seedString' = lastSeedUsed
            /\ replayDraws' = <<>>
            /\ replayed' = TRUE
            /\ UNCHANGED <<lastSeedUsed, genSeed, genDraws>>

\* a caller draws one number: useSeedStore.getState().rng()
RngDraw ==
  /\ UNCHANGED <<boardRest, levelVars, sphereVars, gameVars>>
  /\ UNCHANGED <<seedString, lastSeedUsed, genSeed, replayed>>
  /\ IF rng.kind = "native"
       THEN UNCHANGED <<rng, genDraws, replayDraws>>
       ELSE /\ rng' = NextRng(rng)
            /\ IF replayed
                 THEN /\ Len(replayDraws) < MaxDraws
                      /\ replayDraws' = Append(replayDraws, NextRng(rng).state)
                      /\ UNCHANGED genDraws
                 ELSE /\ Len(genDraws) < MaxDraws
                      /\ genDraws' = Append(genDraws, NextRng(rng).state)
                      /\ UNCHANGED replayDraws

setPhase ==
  /\ UNCHANGED <<boardRest, levelVars, sphereVars, seedVars>>
  /\ \E p \in Phases : phase' = p
  /\ gameStep' = GameStep("setPhase")

TogglePhaseAny(current) == IF current = "paused" THEN "playing" ELSE "paused"

TogglePhase(current) ==
  IF current = "playing" THEN "paused"
  ELSE IF current = "paused" THEN "playing"
  ELSE current

togglePause ==
  /\ UNCHANGED <<boardRest, levelVars, sphereVars, seedVars>>
  /\ phase' = TogglePhase(phase)
  /\ gameStep' = GameStep("togglePause")

restart ==
  /\ UNCHANGED <<boardRest, levelVars, sphereVars, seedVars>>
  /\ phase' = "title"
  /\ gameStep' = GameStep("restart")

\* Click on the game-over overlay: reset the level store, draw a new seed,
\* set the phase to playing, hide the overlay.  Nothing here touches the
\* sphere component: it is not remounted, its flag and observer stay.
handleRestart ==
  /\ UNCHANGED <<boardRest, explodedRef, observerAttached, spheresDisposed>>
  /\ showGameOver
  /\ session < MaxRestarts
  /\ currentLevel' = 1
  /\ coherence' = 25
  /\ peakCoherence' = 25
  /\ tension' = 12
  /\ \E rawSeed \in Seeds : GenerateNewSeed(rawSeed)
  /\ phase' = "playing"
  /\ gameStep' = GameStep("setPhase")
  /\ showGameOver' = FALSE
  /\ session' = session + 1
  /\ shatters' = 0
  /\ sawCritical' = FALSE

NextBoard ==
  \/ RenderFrame
  \/ setTension
  \/ handleRestart
  \/ generateNewSeed
  \/ replayLastSeed
  \/ RngDraw
  \/ setPhase
  \/ togglePause
  \/ restart

SpecBoard == Init /\ [][NextBoard]_vars

(***************************************************************************)
(* Part 5 (specification SpecPattern): the PatternStabilizer component     *)
(* (components/pattern-stabilizer.tsx, lines 26-123) and the input store   *)
(* (store/input-store.ts).  progress is kept in ten-thousandths (10000 is  *)
(* 1.0), speed in thousandths per second, the frame time dt in             *)
(* milliseconds, so that progress += speed * dt is exact: speed * dt / 100.*)
(* The numbers rng() returns are inputs of the frame.                      *)
(***************************************************************************)
\* p.progress >= 1.0
ProgressFull == 10000
\* setTension(Math.min(1, curTension + 0.22)), in hundredths
EscapeTension == 22
\* addCoherence(3)
StabilizeCoherence == 3
\* p.progress - 2.4 * dt, in ten-thousandths per millisecond
PullBack == 24
\* 0.3 + rng() * curTension * 1.2, in thousandths per second
BaseSpeed == 300
\* scene.getEngine().getDeltaTime(), ms
DtValues == {0, 250}
\* values returned by rng(), in hundredths
RngRolls == {0, 99}

patternRest == <<workerVars, startVars, boardVars, directorVars, governorVars,
                 extraVars>>
inputVars == <<heldKeycaps, isAnyHeld, lastKeyOp>>
stabilizerVars == <<activePatterns, idCounter, psMounted, removals, disposals,
                    frameRec, patternEntities>>

AnyHeldSeveral(next) == Cardinality(next) > 1

\* isAnyHeld: next.size > 0
AnyHeld(next) == Cardinality(next) > 0

pressKeycap ==
  /\ UNCHANGED <<patternRest, levelVars, stabilizerVars>>
  /\ \E index \in Keycaps :
       LET next == heldKeycaps \cup {index}
       IN  /\ heldKeycaps' = next
           /\ isAnyHeld' = AnyHeld(next)
           /\ lastKeyOp' = [lastKeyOp EXCEPT ![index] = "press"]

releaseKeycap ==
  /\ UNCHANGED <<patternRest, levelVars, stabilizerVars>>
  /\ \E index \in Keycaps :
       LET next == heldKeycaps \ {index}
       IN  /\ heldKeycaps' = next
           /\ isAnyHeld' = AnyHeld(next)
           /\ lastKeyOp' = [lastKeyOp EXCEPT ![index] = "release"]

releaseAll ==
  /\ UNCHANGED <<patternRest, levelVars, stabilizerVars>>
  /\ heldKeycaps' = {}
  /\ isAnyHeld' = FALSE
  /\ lastKeyOp' = [index \in Keycaps |-> "release"]

\* activePatterns.current.splice(i, 1)
Splice(list, i) ==
  IF i \in DOMAIN list
    THEN [k \in 1..(Len(list) - 1) |-> IF k < i THEN list[k] ELSE list[k + 1]]
    ELSE list

\* rng() < curTension * 1.6 * dt * 7, roll and cur in hundredths, dt in ms
SpawnRoll(roll, cur, dt) == roll * 10000 < cur * 112 * dt

\* speed = 0.3 + rng() * curTension * 1.2 lies in [0.3, 0.3 + 1.2 * cur).
\* The values of rng() tried are those that make the speed a multiple k of
\* 0.3, so that progress stays on a grid: 0.3 * (k - 1) < 1.2 * cur.
SpeedSteps(cur) == {k \in 1..5 : BaseSpeed * (k - 1) < 12 * cur}

\* spawnPattern: the new pattern, its speed k * 0.3
NewPattern(id, k) == [id |-> id, progress |-> 0, speed |-> BaseSpeed * k]

EscapedEarly(progress) == progress >= ProgressFull - 1000

\* if (p.progress >= 1.0)
Escaped(progress) == progress >= ProgressFull

\* if (p.progress <= 0)
Stabilized(progress) == progress <= 0

\* One pass of the loop body for index i.  acc carries the list, the level
\* store's tension, coherence and peakCoherence, and the removals made.
UpdateOne(acc, i, dt, cur, held) ==
  LET p == acc.list[i]
      moved == p.progress + (p.speed * dt) \div 100
      pulled == IF held THEN Max(0, moved - PullBack * dt) ELSE moved
      kept == [acc EXCEPT !.list[i].progress = pulled]
      afterRim ==
        IF Escaped(pulled)
          THEN [kept EXCEPT
                  !.tension = Max(0, Min(100, Min(100, cur + EscapeTension))),
                  !.list = Splice(kept.list, i),
                  !.removed = @ \cup {[id |-> p.id, progress |-> pulled,
                                       outcome |-> "escaped"]}]
          ELSE kept
  IN  IF Stabilized(pulled)
        THEN [afterRim EXCEPT
                !.coherence = Min(100, afterRim.coherence + StabilizeCoherence),
                !.peak = Max(afterRim.peak,
                             Min(100, afterRim.coherence + StabilizeCoherence)),
                !.list = Splice(afterRim.list, i),
                !.removed = @ \cup {[id |-> p.id, progress |-> pulled,
                                     outcome |-> "stabilized"]}]
        ELSE afterRim

\* for (let i = activePatterns.current.length - 1; i >= 0; i--)
RECURSIVE UpdatePatterns(_, _, _, _, _)
UpdatePatterns(acc, i, dt, cur, held) ==
  IF i = 0 THEN acc
  ELSE UpdatePatterns(UpdateOne(acc, i, dt, cur, held), i - 1, dt, cur, held)

\* outcomes recorded for pattern id in one frame, escaped before stabilized
OutcomesOf(removed, id) ==
  (IF \E e \in removed : e.id = id /\ e.outcome = "escaped"
     THEN <<"escaped">> ELSE <<>>)
  \o (IF \E e \in removed : e.id = id /\ e.outcome = "stabilized"
        THEN <<"stabilized">> ELSE <<>>)

\* The render observer: maybe spawn one pattern, then update every active
\* pattern from the last to the first.
PatternFrame ==
  /\ UNCHANGED <<patternRest, inputVars, psMounted, currentLevel>>
  /\ psMounted
  /\ \E dt \in DtValues, spawnRoll \in RngRolls, k \in SpeedSteps(tension) :
       LET cur == tension
           spawn == SpawnRoll(spawnRoll, cur, dt)
           spawned == IF spawn
                        THEN Append(activePatterns,
                                    NewPattern(idCounter, k))
                        ELSE activePatterns
           start == [list |-> spawned, tension |-> tension,
                     coherence |-> coherence, peak |-> peakCoherence,
                     removed |-> {}]
           end == UpdatePatterns(start, Len(spawned), dt, cur, isAnyHeld)
       IN  /\ spawn => idCounter < MaxSpawns
           /\ idCounter' = IF spawn THEN idCounter + 1 ELSE idCounter
           /\ patternEntities' = IF spawn THEN patternEntities + 1
                                  ELSE patternEntities
           /\ activePatterns' = end.list
           /\ tension' = end.tension
           /\ coherence' = end.coherence
           /\ peakCoherence' = end.peak
           /\ removals' = [id \in DOMAIN removals |->
                             removals[id] \o OutcomesOf(end.removed, id)]
           /\ disposals' = [id \in DOMAIN disposals |->
                              disposals[id] + Len(OutcomesOf(end.removed, id))]
           /\ frameRec' = [cur |-> cur, coherenceBefore |-> coherence,
                           removed |-> end.removed,
                           spawned |-> IF spawn THEN idCounter ELSE -1]

\* The effect's cleanup: remove the observer, dispose what is left.
PatternUnmount ==
  /\ UNCHANGED <<patternRest, levelVars, inputVars, idCounter, removals,
                 frameRec, patternEntities>>
  /\ psMounted
  /\ psMounted' = FALSE
  /\ disposals' = [id \in DOMAIN disposals |->
                     IF \E k \in DOMAIN activePatterns : activePatterns[k].id = id
                       THEN disposals[id] + 1 ELSE disposals[id]]
  /\ activePatterns' = <<>>

NextPattern ==
  \/ PatternFrame
  \/ pressKeycap
  \/ releaseKeycap
  \/ releaseAll
  \/ PatternUnmount

SpecPattern == Init /\ [][NextPattern]_vars

(***************************************************************************)
(* Part 6 (specification SpecDirector): the AI director's state machine.   *)
(* lib/ai/director.ts is not among the sources (only its tests,            *)
(* lib/ai/boss-ai.test.ts); the transitions are those of the               *)
(* specification's table of states.  Where the table does not say which of *)
(* two exits whose conditions hold together is taken, both are possible.   *)
(* Skill, the sustained-tension timer, the combo and the state timer are   *)
(* inputs of update().                                                     *)
(***************************************************************************)
DirectorStates == {"Building", "Sustaining", "Relieving", "Surging"}
\* values of performance.panic around the thresholds of the table
Panics == {40, 50, 60, 61, 64, 65, 75, 76, 80, 81, 85, 86, 100}
Skills == {"low", "mid", "high"}
directorRest == <<workerVars, startVars, levelVars, boardVars, patternVars,
                  governorVars, extraVars>>

EmergencyNever(p) == FALSE

\* panic >= 86 at any time -> immediate Relieving
Emergency(p) == p >= 86

\* exits of Building: tension >= 0.75 sustained >= 4 s and high skill ->
\* Surging; panic >= 81 -> Relieving; panic >= 61 or low skill -> Sustaining
BuildingExits(p, skill, surgeReady) ==
  LET surge == surgeReady /\ skill = "high"
      relieve == p >= 81
      sustain == p >= 61 \/ skill = "low"
  IN  IF Emergency(p) THEN {"Relieving"}
      ELSE IF surge /\ relieve THEN {"Surging", "Relieving"}
      ELSE IF relieve THEN {"Relieving"}
      ELSE IF surge /\ sustain THEN {"Surging", "Sustaining"}
      ELSE IF surge THEN {"Surging"}
      ELSE IF sustain THEN {"Sustaining"}
      ELSE {"Building"}

\* exits of Sustaining: panic >= 76 -> Relieving; panic < 61, high skill,
\* combo >= 10, timer >= 5 s -> Building
SustainingExits(p, skill, comboOk, timerOk) ==
  IF p >= 76 THEN {"Relieving"}
  ELSE IF p < 61 /\ skill = "high" /\ comboOk /\ timerOk THEN {"Building"}
  ELSE {"Sustaining"}

\* exit of Relieving: panic < ~65, high skill, timer >= 6 s -> Building
RelievingExits(p, skill, timerOk) ==
  IF p < 65 /\ skill = "high" /\ timerOk THEN {"Building"}
  ELSE {"Relieving"}

\* exits of Surging: emergency; after the hold timer panic high ->
\* Relieving, panic low -> Sustaining (the tests fix 60 as high and 40 as
\* low, nothing says where between them the line is)
SurgingExits(p, timerOk) ==
  IF Emergency(p) THEN {"Relieving"}
  ELSE IF ~timerOk THEN {"Surging"}
  ELSE IF p >= 60 THEN {"Relieving"}
  ELSE IF p <= 40 THEN {"Sustaining"}
  ELSE {"Relieving", "Sustaining"}

DirectorExits(state, p, skill, surgeReady, comboOk, timerOk) ==
  IF state = "Building" THEN BuildingExits(p, skill, surgeReady)
  ELSE IF state = "Sustaining" THEN SustainingExits(p, skill, comboOk, timerOk)
  ELSE IF state = "Relieving" THEN RelievingExits(p, skill, timerOk)
  ELSE SurgingExits(p, timerOk)

\* director.performance.panic = p
SetPanic ==
  /\ UNCHANGED <<directorRest, dirState, dirStep>>
  /\ \E p \in Panics : panic' = p

\* director.update(dt)
DirectorUpdate ==
  /\ UNCHANGED <<directorRest, panic>>
  /\ \E skill \in Skills, surgeReady \in BOOLEAN, comboOk \in BOOLEAN,
        timerOk \in BOOLEAN :
       \E to \in DirectorExits(dirState, panic, skill, surgeReady, comboOk,
                               timerOk) :
         /\ dirState' = to
         /\ dirStep' = [from |-> dirState, panic |-> panic,
                         surge |-> surgeReady /\ skill = "high", to |-> to]

NextDirector ==
  \/ SetPanic
  \/ DirectorUpdate

SpecDirector == Init /\ [][NextDirector]_vars

(***************************************************************************)
(* Part 7 (specification SpecGovernor): the governor's decision functions  *)
(* (unnamed/part_006) applied to snapshots, configurations and random      *)
(* streams.  panic, accuracy, aggressiveness and the numbers the rng       *)
(* returns are in hundredths; the rng is the sequence draws, read from the *)
(* front.                                                                  *)
(***************************************************************************)
CounterTypes == {"reality", "history", "logic"}
NUKE_KEY == "F4"
ABILITY_KEYS == <<"F1", "F2", "F3">>
COUNTER_KEY_MAP == [reality |-> "F1", history |-> "F2", logic |-> "F3"]

\* values of snapshot.panic around the default nukeThreshold, 50
PanicValues == {50, 51}
Probabilities == {0, 50, 100}

Press(key) == [type |-> "press", key |-> key]
Wait == [type |-> "wait", key |-> "none"]
governorRest == <<workerVars, startVars, levelVars, boardVars, patternVars,
                  directorVars, extraVars>>

evaluateNukeNever(snap, cfg) == Null

evaluateNuke(snap, cfg) ==
  IF cfg.useSpecials /\ snap.nukeReady /\ snap.panic > cfg.nukeThreshold
    THEN Press(NUKE_KEY)
    ELSE Null

\* ABILITY_KEYS[Math.floor(rng() * ABILITY_KEYS.length)], roll in hundredths
randomAbilityKey(roll) == ABILITY_KEYS[(roll * Len(ABILITY_KEYS)) \div 100 + 1]

\* freq[counter]
Count(list, type) == Cardinality({i \in DOMAIN list : list[i] = type})

\* index of the first occurrence of type in list
FirstIndex(list, type) ==
  CHOOSE i \in DOMAIN list :
    list[i] = type /\ \A j \in DOMAIN list : list[j] = type => i <= j

\* Object.entries(freq): the types of the list in the order in which the
\* first loop inserted them, that of their first occurrence
RECURSIVE Entries(_, _)
Entries(list, i) ==
  IF i > Len(list) THEN <<>>
  ELSE IF \E j \in 1..(i - 1) : list[j] = list[i]
         THEN Entries(list, i + 1)
         ELSE <<list[i]>> \o Entries(list, i + 1)

BetterOrEqual(count, bestCount) == count >= bestCount

\* if (count > bestCount)
Better(count, bestCount) == count > bestCount

\* the second loop, from entry k on
RECURSIVE Scan(_, _, _, _, _)
Scan(list, entries, k, bestType, bestCount) ==
  IF k > Len(entries) THEN bestType
  ELSE IF Better(Count(list, entries[k]), bestCount)
         THEN Scan(list, entries, k + 1, entries[k], Count(list, entries[k]))
         ELSE Scan(list, entries, k + 1, bestType, bestCount)

bestCounterKey(enemyCounters) ==
  COUNTER_KEY_MAP[Scan(enemyCounters, Entries(enemyCounters, 1), 1,
                       enemyCounters[1], 0)]

\* step 4: if (rng() < config.aggressiveness) press, else wait
Gate(cfg, key, roll, used, path) ==
  IF roll < cfg.aggressiveness
    THEN [action |-> Press(key), used |-> used, path |-> path]
    ELSE [action |-> Wait, used |-> used, path |-> path]

\* the action returned, the number of rng() calls made and the step that
\* produced the key
decideAction(snap, cfg, ds) ==
  LET nukeAction == evaluateNuke(snap, cfg)
  IN  IF nukeAction # Null
        THEN [action |-> nukeAction, used |-> 0, path |-> "nuke"]
      ELSE IF ds[1] > cfg.accuracy
        THEN [action |-> Press(randomAbilityKey(ds[2])), used |-> 2,
              path |-> "miss"]
      ELSE IF Len(snap.enemyCounters) > 0
        THEN Gate(cfg, bestCounterKey(snap.enemyCounters), ds[2], 2, "counter")
      ELSE Gate(cfg, randomAbilityKey(ds[2]), ds[3], 3, "fallback")

\* a new snapshot is read: panic and nukeReady
ReadSnapshot ==
  /\ UNCHANGED <<governorRest, config, draws, best>>
  /\ \E p \in PanicValues, ready \in BOOLEAN :
       snapshot' = [snapshot EXCEPT !.panic = p, !.nukeReady = ready]
  /\ decision' = NoDecision

\* the enemy list of the snapshot: one more enemy, or none at all
ReadEnemies ==
  /\ UNCHANGED <<governorRest, config, draws>>
  /\ \/ \E type \in CounterTypes :
          /\ Len(snapshot.enemyCounters) < MaxEnemies
          /\ snapshot' = [snapshot EXCEPT
                            !.enemyCounters = Append(@, type)]
     \/ snapshot' = [snapshot EXCEPT !.enemyCounters = <<>>]
  /\ decision' = NoDecision
  /\ best' = NoBest

\* resolveConfig: one field of the configuration is set
Configure ==
  /\ UNCHANGED <<governorRest, snapshot, draws, best>>
  /\ \/ \E b \in BOOLEAN : config' = [config EXCEPT !.useSpecials = b]
     \/ \E a \in Probabilities : config' = [config EXCEPT !.accuracy = a]
     \/ \E a \in Probabilities : config' = [config EXCEPT !.aggressiveness = a]
  /\ decision' = NoDecision

\* the random stream: one of the next three numbers
Reseed ==
  /\ UNCHANGED <<governorRest, snapshot, config, best>>
  /\ \E i \in DOMAIN draws, roll \in RngRolls :
       draws' = [draws EXCEPT ![i] = roll]
  /\ decision' = NoDecision

Decide ==
  /\ UNCHANGED <<governorRest, snapshot, config, draws, best>>
  /\ decision' = decideAction(snapshot, config, draws)

CallBestCounterKey ==
  /\ UNCHANGED <<governorRest, snapshot, config, draws, decision>>
  /\ Len(snapshot.enemyCounters) > 0
  /\ best' = bestCounterKey(snapshot.enemyCounters)

NextGovernor ==
  \/ ReadSnapshot
  \/ ReadEnemies
  \/ Configure
  \/ Reseed
  \/ Decide
  \/ CallBestCounterKey

SpecGovernor == Init /\ [][NextGovernor]_vars

(***************************************************************************)
(* Part 8 (specification SpecAudio): the audio store                       *)
(* (store/audio-store.ts) as its caller AudioEngineSystem and the game     *)
(* board use it.  initialize, updateTension and shutdown are async         *)
(* functions: each runs synchronously up to its first await and its        *)
(* continuation runs later, in any order relative to the others.           *)
(***************************************************************************)

\* values the level store hands to updateTension, in hundredths
AudioTensions == {12, 50}

\* const baseBpm = 60 + seedRng() * 40, in hundredths, at the ends of the range
SeedBpms == {6000, 10000}

\* async calls suspended at the same time
InFlight == initializing + Len(updating) + shuttingDown

AudioStep(op) == [NoAudioStep EXCEPT !.op = op]

RemoveAt(seq, i) == [j \in 1..(Len(seq) - 1) |-> IF j < i THEN seq[j]
                                                  ELSE seq[j + 1]]

BpmGateOpen(initialized) == TRUE

\* updateTension: if (get().isInitialized)
BpmGate(initialized) == initialized

\* baseBpm + newTension * baseBpm with baseBpm = 68, in hundredths
TensionBpm(newTension) == 6800 + newTension * 68

\* initialize(), up to its first await
initialize ==
  /\ UNCHANGED audioRest
  /\ IF isInitialized
     THEN /\ audioStep' = [AudioStep("initialize") EXCEPT !.initialized = TRUE]
          /\ UNCHANGED initializing
     ELSE /\ InFlight < MaxAudioTasks
          /\ initializing' = initializing + 1
          /\ audioStep' = AudioStep("initialize")
  /\ UNCHANGED <<isInitialized, audioTension, updating, shuttingDown,
                 transport>>

\* the rest of initialize(): the imports and Tone.start() resolved, the
\* layers are built, the transport gets the seed's BPM and starts; or one
\* of the awaited promises rejected (audio blocked) and initialize() rejects
InitializeResume ==
  /\ UNCHANGED audioRest
  /\ initializing > 0
  /\ initializing' = initializing - 1
  /\ \E rejected \in BOOLEAN, baseBpm \in SeedBpms :
       IF rejected
       THEN /\ audioStep' = [AudioStep("initialize.resume") EXCEPT
                               !.threw = TRUE,
                               !.initialized = isInitialized]
            /\ UNCHANGED <<isInitialized, transport>>
       ELSE /\ transport' = [started |-> TRUE, bpm |-> baseBpm]
            /\ isInitialized' = TRUE
            /\ audioStep' = [AudioStep("initialize.resume") EXCEPT
                               !.transport = <<"bpm", "start">>,
                               !.initialized = isInitialized]
  /\ UNCHANGED <<audioTension, updating, shuttingDown>>

\* updateTension(newTension), up to its await: the store takes the tension;
\* the call goes on to the transport only if the flag is set now
updateTension ==
  /\ UNCHANGED audioRest
  /\ \E newTension \in AudioTensions :
       /\ audioTension' = newTension
       /\ audioStep' = [AudioStep("updateTension") EXCEPT
                          !.initialized = isInitialized]
       /\ IF BpmGate(isInitialized)
          THEN /\ InFlight < MaxAudioTasks
               /\ updating' = Append(updating,
                                     [tension |-> newTension,
                                      initialized |-> isInitialized])
          ELSE UNCHANGED updating
  /\ UNCHANGED <<isInitialized, initializing, shuttingDown, transport>>

\* the rest of an updateTension call: Tone.getTransport().bpm.value = ...
UpdateTensionResume ==
  /\ UNCHANGED audioRest
  /\ \E i \in DOMAIN updating :
       /\ updating' = RemoveAt(updating, i)
       /\ transport' = [transport EXCEPT !.bpm = TensionBpm(updating[i].tension)]
       /\ audioStep' = [AudioStep("updateTension.resume") EXCEPT
                          !.transport = <<"bpm">>,
                          !.initialized = updating[i].initialized]
  /\ UNCHANGED <<isInitialized, audioTension, initializing, shuttingDown>>

\* shutdown(), up to its await
shutdown ==
  /\ UNCHANGED audioRest
  /\ InFlight < MaxAudioTasks
  /\ shuttingDown' = shuttingDown + 1
  /\ audioStep' = [AudioStep("shutdown") EXCEPT !.initialized = isInitialized]
  /\ UNCHANGED <<isInitialized, audioTension, initializing, updating,
                 transport>>

\* the rest of shutdown(): stop and cancel the transport, reset the flag
ShutdownResume ==
  /\ UNCHANGED audioRest
  /\ shuttingDown > 0
  /\ shuttingDown' = shuttingDown - 1
  /\ transport' = [transport EXCEPT !.started = FALSE]
  /\ isInitialized' = FALSE
  /\ audioStep' = [AudioStep("shutdown.resume") EXCEPT
                     !.transport = <<"stop", "cancel">>,
                     !.initialized = isInitialized]
  /\ UNCHANGED <<audioTension, initializing, updating>>

NextAudio ==
  \/ initialize
  \/ InitializeResume
  \/ updateTension
  \/ UpdateTensionResume
  \/ shutdown
  \/ ShutdownResume

SpecAudio == Init /\ [][NextAudio]_vars

(***************************************************************************)
(* Part 9 (specification SpecMusic): AdaptiveMusic.  lib/music.ts is not   *)
(* part of the sources; the class is modelled from its description and     *)
(* from its tests (unnamed/part_025).                                      *)
(***************************************************************************)

\* arguments of setPanic
PanicInputs == {-10, 0, 1, 2, 3, 50, 51, 52, 150}

Waves == {0, 2}

Abs(x) == IF x < 0 THEN -x ELSE x

\* Math.max(0, Math.min(100, value))
ClampPanic(value) == Max(0, Min(100, value))

SignificantAny(value, last) == value # last

\* the change since the last update is >= 2
Significant(value, last) == Abs(value - last) >= 2

MusicStep(op) == [NoMusicStep EXCEPT !.op = op, !.playing = isPlaying,
                                     !.ref = rampedAt]

\* init(): builds the instruments once
musicInit ==
  /\ UNCHANGED musicRest
  /\ musicInitialized' = TRUE
  /\ musicStep' = MusicStep("init")
  /\ UNCHANGED <<isPlaying, musicPanic, lastBpmPanic, rampedAt>>

\* start(wave): nothing before init; else BPM 120 + wave * 8 and playback
start ==
  /\ UNCHANGED musicRest
  /\ \E wave \in Waves :
       IF ~musicInitialized
       THEN /\ musicStep' = [MusicStep("start") EXCEPT !.input = wave]
            /\ UNCHANGED isPlaying
       ELSE /\ isPlaying' = TRUE
            /\ musicStep' = [MusicStep("start") EXCEPT
                               !.input = wave,
                               !.transport = <<"bpm", "start">>]
  /\ UNCHANGED <<musicInitialized, musicPanic, lastBpmPanic, rampedAt>>

\* stop(): nothing when not playing; else transport.stop() and cancel()
stop ==
  /\ UNCHANGED musicRest
  /\ IF ~isPlaying
     THEN musicStep' = MusicStep("stop")
     ELSE musicStep' = [MusicStep("stop") EXCEPT
                          !.transport = <<"stop", "cancel">>]
  /\ isPlaying' = FALSE
  /\ UNCHANGED <<musicInitialized, musicPanic, lastBpmPanic, rampedAt>>

\* setPanic(value): early return when not playing; else the clamped value
\* is kept and the BPM is ramped when it moved by 2 or more since the last
\* ramp
setPanic ==
  /\ UNCHANGED musicRest
  /\ \E value \in PanicInputs :
       LET clamped == ClampPanic(value)
       IN  IF ~isPlaying
           THEN /\ musicStep' = [MusicStep("setPanic") EXCEPT !.input = value]
                /\ UNCHANGED <<musicPanic, lastBpmPanic, rampedAt>>
           ELSE /\ musicPanic' = clamped
                /\ IF Significant(clamped, lastBpmPanic)
                   THEN /\ lastBpmPanic' = clamped
                        /\ rampedAt' = clamped
                        /\ musicStep' = [MusicStep("setPanic") EXCEPT
                                           !.input = value,
                                           !.ramped = TRUE,
                                           !.transport =
                                             <<"cancelScheduledValues",
                                               "rampTo">>]
                   ELSE /\ musicStep' = [MusicStep("setPanic") EXCEPT
                                           !.input = value]
                        /\ UNCHANGED <<lastBpmPanic, rampedAt>>
  /\ UNCHANGED <<musicInitialized, isPlaying>>

\* destroy(): stops playback, disposes every node; a second call finds
\* nothing to dispose
destroy ==
  /\ UNCHANGED musicRest
  /\ musicInitialized' = FALSE
  /\ isPlaying' = FALSE
  /\ musicStep' = [MusicStep("destroy") EXCEPT
                     !.transport = IF isPlaying THEN <<"stop", "cancel">>
                                   ELSE <<>>]
  /\ UNCHANGED <<musicPanic, lastBpmPanic, rampedAt>>

NextMusic ==
  \/ musicInit
  \/ start
  \/ stop
  \/ setPanic
  \/ destroy

SpecMusic == Init /\ [][NextMusic]_vars

(***************************************************************************)
(* Part 10 (specification SpecBoss): the goal evaluators of the boss AI.   *)
(* lib/ai/boss-ai.ts is not part of the sources; the evaluators are        *)
(* modelled from their description and from their tests                    *)
(* (lib/ai/boss-ai-internals.test.ts, lib/ai/boss-ai.test.ts).             *)
(* Desirabilities are in thousandths, Math.random() in hundredths.         *)
(***************************************************************************)
PatternNames == {"burst", "sweep", "spiral"}

\* the pattern an evaluator needs; Reposition, Summon and Rage need none
PatternOf == [Burst |-> "burst", Sweep |-> "sweep", Spiral |-> "spiral"]

\* values given to boss.attackCooldown by the tests and by attack goals
CooldownValues == {0, 1, 10}

BossHps == {20, 40, 100}

Aggressions == {0, 100}

Randoms == {0, 99}

\* a desirability whose formula is not given: some positive value
SomePositive == {100, 900}

OnCooldownNever(cooldown) == FALSE

\* the shared attackCooldown has not reached 0
OnCooldown(cooldown) == cooldown > 0

PatternMissing(e, patterns) ==
  e \in DOMAIN PatternOf /\ PatternOf[e] \notin patterns

\* the values calculateDesirability() of evaluator e can return
Desirabilities(e, cooldown, st, random) ==
  IF e = "Reposition" THEN {400 + random * 2}
  ELSE IF OnCooldown(cooldown) \/ PatternMissing(e, st.patterns) THEN {0}
  ELSE IF e = "Burst" THEN {500 + st.aggression * 3 + random * 2}
  ELSE IF e = "Rage"
       THEN IF st.hp * 10 > 100 * 3 THEN {0}
            ELSE {800 + (100 - st.hp) * 5 + random}
  ELSE IF e = "Summon" THEN {0} \cup SomePositive
  ELSE SomePositive

\* one of the values an evaluator can return: the least, the greatest or,
\* of three, the middle one
Pick(values, which) ==
  LET least == CHOOSE v \in values : \A w \in values : v <= w
      greatest == CHOOSE v \in values : \A w \in values : v >= w
  IN  IF which = 0 THEN least
      ELSE IF which = 2 THEN greatest
      ELSE IF values \ {least, greatest} = {} THEN greatest
      ELSE CHOOSE v \in values \ {least, greatest} : TRUE

\* which value each evaluator whose formula is not given returns
Choices == [{"Sweep", "Spiral", "Summon"} -> {0, 2}]

\* Think.arbitrate(): the evaluator of highest bias * desirability sets its
\* goal.  The biases are positive and not all given, so any evaluator of
\* positive desirability may be the one
Selectable(desirability) == {e \in Evaluators : desirability[e] > 0}

\* boss.attackCooldown = ... (written by the tests and by attack goals)
SetCooldown ==
  /\ UNCHANGED bossRest
  /\ \E cooldown \in CooldownValues : attackCooldown' = cooldown
  /\ bossStep' = NoBossStep
  /\ UNCHANGED bossState

\* new BossAI(state) / boss.state.patterns = ..., hp, aggression
SetBossState ==
  /\ UNCHANGED bossRest
  /\ \E patterns \in SUBSET PatternNames, hp \in BossHps,
        aggression \in Aggressions :
       bossState' = [patterns |-> patterns, hp |-> hp,
                     aggression |-> aggression]
  /\ bossStep' = NoBossStep
  /\ UNCHANGED attackCooldown

\* update(dt, state): attackCooldown -= dt, then the brain arbitrates and
\* the selected goal runs; an attack may start a new cooldown
BossUpdate ==
  /\ UNCHANGED bossRest
  /\ \E random \in Randoms, next \in CooldownValues :
       LET cooldown == attackCooldown - 1
       IN  /\ cooldown >= -MaxOvershoot
           /\ \E choice \in Choices :
                LET desirability ==
                      [e \in Evaluators |->
                         Pick(Desirabilities(e, cooldown, bossState, random),
                              IF e \in DOMAIN choice THEN choice[e] ELSE 0)]
                IN  \E selected \in Selectable(desirability) :
                      /\ bossStep' = [op |-> "update", cooldown |-> cooldown,
                                      patterns |-> bossState.patterns,
                                      desirability |-> desirability,
                                      selected |-> selected]
                      /\ attackCooldown' =
                           IF selected = "Reposition" \/ next = 0
                           THEN cooldown ELSE next
  /\ UNCHANGED bossState

NextBoss ==
  \/ SetCooldown
  \/ SetBossState
  \/ BossUpdate

SpecBoss == Init /\ [][NextBoss]_vars

(***************************************************************************)
(* Part 11 (specification SpecPool): the SPSEnemies component              *)
(* (unnamed/part_018).  Heights are in hundredths of a unit, the engine's  *)
(* delta time in milliseconds, Math.random() in hundredths.  The x and z   *)
(* coordinates and the rotation of a particle are left out.                *)
(***************************************************************************)
\* SPS.addShape(model, 120)
NbParticles == 120

\* p.position.set(0, -100, 0)
ParkedY == -10000

\* if (particle.position.y < 0.4)
FloorY == 40

\* scene.getEngine().getDeltaTime()
DeltaTimes == {0, 1000}

PoolRolls == {0, 99}

Parked == [alive |-> FALSE, y |-> ParkedY]

FallenNever(y) == FALSE

\* particle.position.y < 0.4
Fallen(y) == y < FloorY

\* SPS.updateParticle(particle)
updateParticle(particle, cur, dt) ==
  IF ~particle.alive THEN particle
  ELSE LET y == particle.y - ((200 + cur * 4) * dt) \div 1000
       IN  IF Fallen(y) THEN [alive |-> FALSE, y |-> ParkedY]
           ELSE [alive |-> TRUE, y |-> y]

\* SPS.setParticles(): updateParticle on every particle
setParticles(ps, cur, dt) ==
  [i \in DOMAIN ps |-> updateParticle(ps[i], cur, dt)]

Dead(ps) == {i \in DOMAIN ps : ~ps[i].alive}

\* the first particle that is not alive, 0 if all are
FirstDead(ps) ==
  IF Dead(ps) = {} THEN 0
  ELSE CHOOSE i \in Dead(ps) : \A j \in Dead(ps) : i <= j

\* Math.random() < curTension * 0.3
ActivationRoll(roll, cur) == roll * 100 < cur * 30

\* the effect: the pool is built with 120 parked particles
PoolMount ==
  /\ UNCHANGED poolRest
  /\ ~spsMounted
  /\ spsMounted' = TRUE
  /\ particles' = [i \in 1..NbParticles |-> Parked]
  /\ retired' = {}
  /\ poolStep' = [NoPoolStep EXCEPT !.op = "mount", !.size = 0]
  /\ UNCHANGED activations

\* the onBeforeRenderObservable callback
PoolFrame ==
  /\ UNCHANGED poolRest
  /\ spsMounted
  /\ \E dt \in DeltaTimes, roll \in PoolRolls, spawn \in PoolRolls :
       LET moved == setParticles(particles, tension, dt)
           died == {i \in DOMAIN particles :
                      particles[i].alive /\ ~moved[i].alive}
           rolled == ActivationRoll(roll, tension)
           first == IF rolled THEN FirstDead(moved) ELSE 0
       IN  /\ first # 0 => activations < MaxActivations
           /\ activations' = IF first # 0 THEN activations + 1
                             ELSE activations
           /\ particles' = IF first # 0
                           THEN [moved EXCEPT ![first] =
                                   [alive |-> TRUE, y |-> 800 + spawn * 4]]
                           ELSE moved
           /\ retired' = retired \cup died
           /\ poolStep' = [op |-> "frame", size |-> Len(particles),
                           died |-> died, activated |-> first,
                           free |-> Dead(moved) # {}, rolled |-> rolled]
  /\ UNCHANGED spsMounted

\* the effect's cleanup: observer removed, SPS.dispose()
PoolUnmount ==
  /\ UNCHANGED poolRest
  /\ spsMounted
  /\ spsMounted' = FALSE
  /\ particles' = <<>>
  /\ poolStep' = [NoPoolStep EXCEPT !.op = "unmount",
                                    !.size = Len(particles)]
  /\ UNCHANGED <<activations, retired>>


NextPool ==
  \/ PoolMount
  \/ PoolFrame
  \/ PoolUnmount
  \/ setTension

SpecPool == Init /\ [][NextPool]_vars

(***************************************************************************)
(* Part 12 (specification SpecExplosion): the HeadExplosion component      *)
(* (components/scene/HeadExplosion.tsx): the commit of a render with a new *)
(* active prop, the effect that runs after it, and the per-frame callback. *)
(* React runs a pending passive effect before it renders again; frames may *)
(* run between a commit and its effect.                                    *)
(***************************************************************************)
EXPLOSION_DURATION == 2500

\* time between two frames, in ms
FrameSteps == {500, 1250}

ExplosionStep(op) == [NoExplosionStep EXCEPT !.op = op]

CompletedMarkKept == completedRef

\* completedRef.current = true
CompletedMark == TRUE

\* the parent renders the component with the other value of active;
\* if (!active) return null decides whether the meshes are mounted
SetActive ==
  /\ UNCHANGED explosionRest
  /\ ~effectPending
  /\ active' = ~active
  /\ instanceMounted' = ~active
  /\ effectPending' = TRUE
  /\ explosionStep' = ExplosionStep("render")
  /\ UNCHANGED <<activeRef, completedRef, startTimeRef, elapsedTime,
                 completions, dueFrames>>

\* useEffect(() => { ... }, [active, clock, data])
ActivationEffect ==
  /\ UNCHANGED explosionRest
  /\ effectPending
  /\ effectPending' = FALSE
  /\ explosionStep' = ExplosionStep("effect")
  /\ IF active /\ ~activeRef
     THEN /\ activeRef' = TRUE
          /\ completedRef' = FALSE
          /\ startTimeRef' = elapsedTime
          /\ completions' = 0
          /\ dueFrames' = 0
     ELSE IF ~active
     THEN /\ activeRef' = FALSE
          /\ completedRef' = FALSE
          /\ UNCHANGED <<startTimeRef, completions, dueFrames>>
     ELSE UNCHANGED <<activeRef, completedRef, startTimeRef, completions,
                      dueFrames>>
  /\ UNCHANGED <<active, instanceMounted, elapsedTime>>

\* the renderer advances the clock and calls the useFrame callback
ExplosionFrame ==
  /\ UNCHANGED explosionRest
  /\ \E d \in FrameSteps :
       /\ elapsedTime + d <= MaxClock
       /\ elapsedTime' = elapsedTime + d
       /\ IF ~activeRef \/ ~instanceMounted
          THEN /\ explosionStep' = ExplosionStep("frame")
               /\ UNCHANGED <<completedRef, completions, dueFrames>>
          ELSE LET elapsed == elapsedTime' - startTimeRef
                   due == elapsed >= EXPLOSION_DURATION
               IN  /\ dueFrames' = IF due THEN dueFrames + 1 ELSE dueFrames
                   /\ IF due /\ ~completedRef
                      THEN /\ completedRef' = CompletedMark
                           /\ completions' = completions + 1
                      ELSE UNCHANGED <<completedRef, completions>>
                   /\ explosionStep' =
                        [op |-> "frame", elapsed |-> elapsed,
                         called |-> due /\ ~completedRef,
                         firstDue |-> due /\ dueFrames = 0]
  /\ UNCHANGED <<active, instanceMounted, effectPending, activeRef,
                 startTimeRef>>

NextExplosion ==
  \/ SetActive
  \/ ActivationEffect
  \/ ExplosionFrame

SpecExplosion == Init /\ [][NextExplosion]_vars

(***************************************************************************)
(* Part 13 (specification SpecScore): loadHighScore / saveHighScore        *)
(* (unnamed/part_027).  The stored item is a string; it is modelled by     *)
(* what JSON.parse makes of it: no item, the empty string, text that is    *)
(* not JSON, the JSON texts null and 42, or a JSON object whose three      *)
(* fields are each missing, null, a number or a string.                    *)
(***************************************************************************)
Storages == {"ok", "unavailable", "noWindow"}

FieldNames == {"peakCoherence", "levelsSurvived", "seed"}

PeakValues == {Missing, JNull, Num(42), Str("high")}
LevelValues == {Missing, JNull, Num(4)}
SeedValues == {Missing, JNull, Str("abc123")}

Objects == [peakCoherence : PeakValues, levelsSurvived : LevelValues,
            seed : SeedValues]

RawItems ==
  {[kind |-> k, fields |-> NoFields] :
     k \in {"none", "empty", "garbage", "jnull", "jnum"}}
  \cup {[kind |-> "obj", fields |-> o] : o \in Objects}

\* records saveHighScore is called with
HighScores == [peakCoherence : {Num(85)}, levelsSurvived : {Num(4)},
               seed : {Str("abc123"), Str("")}]

CoalesceAlways(value, default) == default

\* value ?? default
Coalesce(value, default) ==
  IF value.t = "missing" \/ value.t = "null" THEN default ELSE value

\* the body of loadHighScore's try block for a raw item that getItem
\* returned: <<threw, result>>
TryLoad(raw) ==
  IF raw.kind = "none" \/ raw.kind = "empty"
  THEN <<FALSE, DEFAULT_HIGH_SCORE>>
  ELSE IF raw.kind = "garbage" \/ raw.kind = "jnull"
  THEN <<TRUE, DEFAULT_HIGH_SCORE>>
  ELSE <<FALSE,
         [f \in FieldNames |->
            Coalesce(raw.fields[f], DEFAULT_HIGH_SCORE[f])]>>

\* the environment changes (server render, storage blocked, browser)
SetStorage ==
  /\ UNCHANGED scoreRest
  /\ \E s \in Storages :
       /\ s # storage
       /\ storage' = s
  /\ loaded' = NoLoad
  /\ UNCHANGED stored

\* localStorage.setItem(STORAGE_KEY, text) by anyone, or removeItem
SetItem ==
  /\ UNCHANGED scoreRest
  /\ storage = "ok"
  /\ \E raw \in RawItems :
       /\ raw # stored
       /\ stored' = raw
  /\ loaded' = NoLoad
  /\ UNCHANGED storage

\* saveHighScore(data)
saveHighScore ==
  /\ UNCHANGED scoreRest
  /\ \E data \in HighScores, full \in BOOLEAN :
       IF storage = "ok" /\ ~full
       THEN /\ stored' = [kind |-> "obj", fields |-> data]
            /\ loaded' = [NoLoad EXCEPT !.op = "save", !.raw = stored']
       ELSE /\ loaded' = [NoLoad EXCEPT !.op = "save", !.raw = stored]
            /\ UNCHANGED stored
  /\ UNCHANGED storage

\* loadHighScore(): without a window the default; else the try block, whose
\* exceptions (getItem, JSON.parse, a property read on null) are all caught
loadHighScore ==
  /\ UNCHANGED scoreRest
  /\ loaded' =
       IF storage = "noWindow"
       THEN [NoLoad EXCEPT !.op = "load"]
       ELSE IF storage = "unavailable"
       THEN [NoLoad EXCEPT !.op = "load", !.caught = TRUE]
       ELSE [op |-> "load", threw |-> FALSE, caught |-> TryLoad(stored)[1],
             result |-> TryLoad(stored)[2], raw |-> stored]
  /\ UNCHANGED <<storage, stored>>

NextScore ==
  \/ SetStorage
  \/ SetItem
  \/ saveHighScore
  \/ loadHighScore

SpecScore == Init /\ [][NextScore]_vars

(***************************************************************************)
(* Part 14 (specification SpecDream): spawnDreamFromSeed and the four      *)
(* dream archetype queries (the ECS module held in vitest.config.ts).  An  *)
(* entity is modelled by the names of the components it defines and its    *)
(* buriedSeedHash.  utils/seed-helpers.ts (hashSeed) is not part of the    *)
(* sources: hashSeed is modelled as the description has it, a stable       *)
(* string -> integer hash, here without sign.                              *)
(***************************************************************************)
\* character codes of the seed strings tried
SeedChars == {97, 98, 99}

SeedStrings == UNION {[1..n -> SeedChars] : n \in 0..MaxSeedLen}

\* the hash is kept to 16 bits
HashRange == 65536

RECURSIVE HashFrom(_, _, _)
HashFrom(str, i, hash) ==
  IF i > Len(str) THEN hash
  ELSE HashFrom(str, i + 1, (hash * 31 + str[i]) % HashRange)

\* hashSeed(seedString)
hashSeed(seedText) == HashFrom(seedText, 1, 0)

ArchetypeIndexShifted(seedHash) == (seedHash + 1) % 4

\* const archetypeIndex = seedHash % 4
ArchetypeIndex(seedHash) == seedHash % 4

\* the components every case assigns
CommonComponents == {"tensionCurve", "keyPatterns", "phases",
                     "difficultyConfig", "audioParams", "patternSequences",
                     "enemyTraitSelector"}

\* the components Object.assign defines in each case of the switch
CaseComponents(archetypeIndex) ==
  IF archetypeIndex = 0
  THEN CommonComponents \cup {"platterCore", "rotationAxis", "rotationRPM",
                              "reachZoneArc"}
  ELSE IF archetypeIndex = 1
  THEN CommonComponents \cup {"leverCore", "resistanceProfile",
                              "slitAnimation", "slitPeriod",
                              "frequencyTolerance", "corruptionTendrilSpawn"}
  ELSE IF archetypeIndex = 2
  THEN CommonComponents \cup {"keycapPatterns", "stabilizationHoldTime",
                              "yukaSpawnRate", "patternProgression",
                              "baseSequenceLength"}
  ELSE IF archetypeIndex = 3
  THEN CommonComponents \cup {"boss", "cubeCrystalline", "platterLockPhase",
                              "finalTensionBurst", "bossHealth", "slamCycles",
                              "counterWindowBase"}
  ELSE {}

\* the entity spawnDreamFromSeed builds
DreamEntity(seedHash) ==
  [components |-> {"level", "buriedSeedHash"}
                    \cup CaseComponents(ArchetypeIndex(seedHash)),
   buriedSeedHash |-> seedHash]

\* world.with(...): the components each archetype query requires
DreamQueries ==
  [PlatterRotationDream |->
     {"level", "platterCore", "rotationAxis", "tensionCurve", "keyPatterns",
      "buriedSeedHash"},
   LeverTensionDream |->
     {"level", "leverCore", "resistanceProfile", "slitAnimation",
      "corruptionTendrilSpawn"},
   KeySequenceDream |->
     {"level", "keycapPatterns", "stabilizationHoldTime", "yukaSpawnRate",
      "patternProgression"},
   CrystallineCubeBossDream |->
     {"level", "boss", "cubeCrystalline", "platterLockPhase",
      "finalTensionBurst"}]

\* the queries an entity is a member of
MatchingQueries(entity) ==
  {q \in DOMAIN DreamQueries : DreamQueries[q] \subseteq entity.components}

\* spawnDreamFromSeed(seedString)
spawnDreamFromSeed ==
  /\ UNCHANGED dreamRest
  /\ Len(world) < MaxDreams
  /\ \E seedText \in SeedStrings :
       LET seedHash == hashSeed(seedText)
       IN  /\ world' = Append(world, DreamEntity(seedHash))
           /\ dreamStep' = [op |-> "spawn", seed |-> seedText,
                            seedHash |-> seedHash, size |-> Len(world)]

\* the lookups of the systems: they change nothing
QueryDreams ==
  /\ UNCHANGED dreamRest
  /\ dreamStep.op = "spawn"
  /\ dreamStep' = [dreamStep EXCEPT !.op = "query"]
  /\ UNCHANGED world

NextDream ==
  \/ spawnDreamFromSeed
  \/ QueryDreams

SpecDream == Init /\ [][NextDream]_vars

(***************************************************************************)
(* Part 15 (specification SpecSpatial): SpatialAudio.  initSynths is an    *)
(* async function with three awaits; its guard reads synthsRef.current,    *)
(* which is assigned only after the last await.  A call is its position    *)
(* (the await it is suspended at) and the number of Tone nodes it has      *)
(* constructed.                                                            *)
(***************************************************************************)
\* nodes constructed before `await chimeReverb.ready`
ChimeAwaitNodes == 4
\* nodes constructed before `await shatterReverb.ready`
ShatterAwaitNodes == 6
\* nodes of the whole set
SetNodes == 9

SoundEvents == {"patternEscaped", "patternStabilized", "sphereShattered"}

\* initSynths() up to `await import('tone')`: TRUE when the call got past
\* the guard
PassesGuard(isInit) == isInit /\ synthsRef = NoSynths /\ ~disposedRef

initSynths(isInit) ==
  IF PassesGuard(isInit)
  THEN /\ Len(synthCalls) < MaxSynthCalls
       /\ synthCalls' = Append(synthCalls, [stage |-> "import", nodes |-> 0])
  ELSE UNCHANGED synthCalls

\* the store subscription's callback, called by every set() of the audio
\* store with the state it has then
StoreNotify ==
  /\ UNCHANGED spatialRest
  /\ saMounted
  /\ \E isInit \in BOOLEAN :
       /\ IF isInit /\ synthsRef = NoSynths
          THEN initSynths(isInit)
          ELSE UNCHANGED synthCalls
       /\ spatialStep' = [op |-> "notify",
                          started |-> isInit /\ PassesGuard(isInit)]
  /\ UNCHANGED <<saMounted, synthsRef, disposedRef, disposedSets>>

\* onPatternEscaped / onPatternStabilized / onSphereShattered up to their
\* `await initSynths()`; what follows the await only triggers the nodes
\* synthsRef.current holds
SoundEvent ==
  /\ UNCHANGED spatialRest
  /\ saMounted
  /\ \E event \in SoundEvents, isInit \in BOOLEAN :
       /\ initSynths(isInit)
       /\ spatialStep' = [op |-> event, started |-> PassesGuard(isInit)]
  /\ UNCHANGED <<saMounted, synthsRef, disposedRef, disposedSets>>

\* import('tone') resolved: the escape chain and the chime reverb are built
ImportResolved ==
  /\ UNCHANGED spatialRest
  /\ \E i \in DOMAIN synthCalls :
       /\ synthCalls[i].stage = "import"
       /\ synthCalls' = [synthCalls EXCEPT ![i] = [stage |-> "chime",
                                                  nodes |-> ChimeAwaitNodes]]
       /\ spatialStep' = [op |-> "import", started |-> FALSE]
  /\ UNCHANGED <<saMounted, synthsRef, disposedRef, disposedSets>>

\* chimeReverb.ready resolved: the chime synth and the shatter reverb
ChimeReverbReady ==
  /\ UNCHANGED spatialRest
  /\ \E i \in DOMAIN synthCalls :
       /\ synthCalls[i].stage = "chime"
       /\ synthCalls' = [synthCalls EXCEPT ![i] = [stage |-> "shatter",
                                                  nodes |-> ShatterAwaitNodes]]
       /\ spatialStep' = [op |-> "chimeReady", started |-> FALSE]
  /\ UNCHANGED <<saMounted, synthsRef, disposedRef, disposedSets>>

\* shatterReverb.ready resolved: the rest of the shatter chain; the set goes
\* into synthsRef.current unless the cleanup has run
ShatterReverbReady ==
  /\ UNCHANGED spatialRest
  /\ \E i \in DOMAIN synthCalls :
       /\ synthCalls[i].stage = "shatter"
       /\ synthCalls' = [synthCalls EXCEPT ![i] = [stage |-> "done",
                                                  nodes |-> SetNodes]]
       /\ synthsRef' = IF disposedRef THEN synthsRef ELSE i
       /\ spatialStep' = [op |-> "shatterReady", started |-> FALSE]
  /\ UNCHANGED <<saMounted, disposedRef, disposedSets>>

\* the effect's cleanup
SpatialUnmount ==
  /\ UNCHANGED spatialRest
  /\ saMounted
  /\ saMounted' = FALSE
  /\ disposedRef' = TRUE
  /\ disposedSets' = IF synthsRef # NoSynths
                     THEN disposedSets \cup {synthsRef}
                     ELSE disposedSets
  /\ synthsRef' = NoSynths
  /\ spatialStep' = [op |-> "unmount", started |-> FALSE]
  /\ UNCHANGED synthCalls

NextSpatial ==
  \/ StoreNotify
  \/ SoundEvent
  \/ ImportResolved
  \/ ChimeReverbReady
  \/ ShatterReverbReady
  \/ SpatialUnmount

SpecSpatial == Init /\ [][NextSpatial]_vars

(***************************************************************************)
(* Properties of the worker.                                               *)
(***************************************************************************)
\* the last step invoked the GameLogic method name
HasCall(name) == \E i \in DOMAIN step.calls : step.calls[i][1] = name

\* the last step posted a message of this type
HasPosted(type) == \E i \in DOMAIN step.posted : step.posted[i].type = type

Commands == {"START", "PAUSE", "RESUME", "INPUT", "ABILITY", "NUKE", "CLICK",
             "TERMINATE", "PING"}

\* C1: between a processed PAUSE and the next processed RESUME or START no
\* step of the worker calls GameLogic.update or posts a STATE message.
C1_NoTickWhilePaused ==
  paused => ~HasCall("update") /\ ~HasPosted("STATE")

\* C1 witness: a game that already ticked and is still running in the
\* simulation is paused for longer than the loop's timer delay.
C1_Witness ==
  /\ paused
  /\ logicRunning
  /\ simTicks > 0
  /\ now >= lastTime + 2 * TimerDelay

\* C2: a tick whose update and getState both returned posts exactly one
\* STATE message, carrying the simulation state as it is after that update;
\* no other step posts a STATE message.
C2_OneStatePerCompletedTick ==
  /\ (step.op = "tick" /\ HasCall("update") /\ ~step.threw)
        => step.posted = <<StateMsg(getState)>>
  /\ HasPosted("STATE")
        => step.op = "tick" /\ HasCall("update") /\ ~step.threw

\* C2 witness: a second completed tick has posted its snapshot.
C2_Witness ==
  /\ step.op = "tick"
  /\ ~step.threw
  /\ simTicks = 2
  /\ step.posted = <<StateMsg(Snapshot(2, simInputs))>>

\* C3: a tick in which update or getState throws posts one ERROR and no
\* STATE, leaves no timer pending, and the loop stays stopped until a START
\* or RESUME is processed.
C3_TickErrorStopsLoop ==
  /\ (step.op = "tick" /\ step.threw) => step.posted = <<ErrorMsg>>
  /\ errorStop => ~running /\ pending = {}

\* C3 witness: a tick has thrown after the simulation had been updated.
C3_Witness ==
  /\ errorStop
  /\ step.op = "tick"
  /\ step.threw
  /\ HasCall("update")

\* C4: when new GameLogic() throws, start-up posts ERROR and not READY.
C4_InitFailurePostsError ==
  (step.op = "init" /\ logic = Undefined) => step.posted = <<ErrorMsg>>

\* C4 witness: the constructor threw during start-up.
C4_Witness == booted /\ step.op = "init" /\ step.threw /\ logic = Undefined

\* C5: a command handled while GameLogic was never constructed invokes no
\* simulation method and leaves running false and no timer pending.
C5_DefensiveBeforeInit ==
  (logic = Undefined /\ step.op \in Commands)
     => step.calls = <<>> /\ ~running /\ pending = {}

\* C6: once TERMINATE was processed no timer is pending, and no later step
\* calls a GameLogic method or posts a message.
C6_TerminateIsFinal ==
  closed => /\ pending = {}
            /\ ~running
            /\ step.op \in {"TERMINATE", "dropped"}
            /\ step.calls = <<>>
            /\ step.posted = <<>>

\* C6 witness: a command was sent to a terminated worker whose game had
\* been ticking.
C6_Witness == closed /\ step.op = "dropped" /\ simTicks > 0 /\ logicRunning

\* C7: the first tick after a RESUME that ended a stop computes its frame
\* factor from the instant that RESUME was processed.
C7_ResumeReanchors ==
  (step.op = "tick" /\ step.anchor # -1 /\ step.dt # NoDt)
     => step.dt = FrameFactor(lastTime, step.anchor)

\* C7 witness: a game ticked, was paused for a while and resumed; the first
\* tick after the RESUME sees one timer delay, not the time since the last
\* tick before the pause.
C7_Witness ==
  /\ step.op = "tick"
  /\ step.anchor > TimerDelay
  /\ simTicks = 2
  /\ step.dt = TimerDelay * 100
  /\ lastTime = step.anchor + TimerDelay

\* C9: a CLICK triggers an ability exactly when findEnemyAt returned an
\* enemy that is not encrypted, and then the ability is that enemy's
\* counter; every other triggerAbility comes from an INPUT or ABILITY
\* command.
C9_ClickSkipsEncrypted ==
  /\ step.op = "CLICK" =>
       /\ HasCall("triggerAbility")
            <=> (step.hit # NoHit /\ ~step.hit.encrypted)
       /\ HasCall("triggerAbility")
            => step.calls[Len(step.calls)] = <<"triggerAbility", step.hit.counter>>
  /\ HasCall("triggerAbility") => step.op \in {"CLICK", "INPUT", "ABILITY"}

\* C9 witness: a click hit an encrypted enemy and only the hit-test ran.
C9_Witness ==
  /\ step.op = "CLICK"
  /\ step.hit # NoHit
  /\ step.hit.encrypted
  /\ step.calls = <<FindCall>>

(***************************************************************************)
(* Properties of the start polling.                                        *)
(***************************************************************************)
\* the clock at which the chain c made its latest attemptStart call
PollTime(c) == c.requestedAt + StartDelay + RetryDelay * c.retries

\* C8: each start request polls at requestedAt + 1100 + 200 * k for
\* k = 0..50 at most, posts START once, at the first poll at which the
\* worker reference is set, and gives up only when the 50th retry still
\* found no worker.
C8_BoundedStartRetry ==
  \A r \in DOMAIN chains :
    LET c == chains[r]
        mine == {t \in uiTimers : t.kind = "attempt" /\ t.req = r}
    IN  /\ c.retries <= RetryLimit
        /\ c.posts <= 1
        /\ Cardinality(mine) <= 1
        /\ \A t \in mine : /\ c.status = "polling"
                           /\ t.retries = c.retries
                           /\ t.due = PollTime(c)
        /\ c.status = "polling" => c.posts = 0 /\ mine # {}
        /\ c.status = "posted" =>
             /\ c.posts = 1
             /\ c.postedAt = PollTime(c)
             /\ mountedAt # -1 /\ mountedAt <= c.postedAt
             /\ c.retries > 0 => mountedAt >= c.postedAt - RetryDelay
        /\ c.status = "gaveup" =>
             /\ c.posts = 0
             /\ c.retries = RetryLimit
             /\ mountedAt = -1 \/ mountedAt >= PollTime(c)
        /\ c.status = "aborted" => c.posts = 0 /\ mine = {}

\* C8 witness: the worker reference appeared after several polls had found
\* none, and the next poll posted START.
C8_Witness ==
  \E r \in DOMAIN chains :
    /\ chains[r].status = "posted"
    /\ chains[r].retries >= 3
    /\ chains[r].posts = 1

\* C8 witness of the other end: the 50th retry found no worker and the
\* polling stopped.
C8_GaveUp ==
  \E r \in DOMAIN chains :
    chains[r].status = "gaveup" /\ chains[r].retries = RetryLimit

(***************************************************************************)
(* Properties of the level store.                                          *)
(***************************************************************************)
\* C10: the level store always has 0 <= tension <= 1 and
\* 0 <= coherence <= 100.
C10_LevelStoreClamped ==
  /\ 0 <= tension /\ tension <= 100
  /\ 0 <= coherence /\ coherence <= 100

(***************************************************************************)
(* Properties of the game board.                                           *)
(***************************************************************************)
\* C11: in every play session, the initial one and each one begun by a
\* restart, the shatter transition happens exactly once, on the first frame
\* whose tension is >= 0.99, and never a second time: once a frame of the
\* session has had tension >= 0.99 the session has had exactly one shatter,
\* and no session has more than one.
C11_ShatterOncePerSession ==
  /\ shatters <= 1
  /\ sawCritical => shatters = 1

\* C19: after generateNewSeed() and any number of rng() draws,
\* replayLastSeed() installs a generator whose outputs equal, draw for
\* draw, those of the generator generateNewSeed() installed, and the
\* recorded seed is the one generateNewSeed() recorded.
C19_ReplayReproduces ==
  replayed =>
    /\ lastSeedUsed = genSeed
    /\ seedString = genSeed
    /\ \A i \in DOMAIN replayDraws :
         /\ replayDraws[i] = OutputAt(seedrandom(genSeed), i)
         /\ i \in DOMAIN genDraws => replayDraws[i] = genDraws[i]

\* draws were made, then the seed was replayed and as many draws made again
C19_Witness ==
  /\ replayed
  /\ Len(genDraws) = MaxDraws
  /\ Len(replayDraws) = MaxDraws

\* C20: togglePause takes playing to paused and paused to playing, leaves
\* title and gameover as they are, and two consecutive calls restore the
\* phase from before the first.
C20_TogglePauseFlips ==
  gameStep.op = "togglePause" =>
    /\ gameStep.before = "playing" => phase = "paused"
    /\ gameStep.before = "paused" => phase = "playing"
    /\ gameStep.before \in {"title", "gameover"} => phase = gameStep.before
    /\ gameStep.before2 # "none" => phase = gameStep.before2

\* two consecutive calls that started from paused
C20_Witness ==
  /\ gameStep.op = "togglePause"
  /\ gameStep.before2 = "paused"
  /\ gameStep.before = "playing"

\* two consecutive calls in phase gameover
C20_WitnessGameover ==
  /\ gameStep.op = "togglePause"
  /\ gameStep.before2 = "gameover"

(***************************************************************************)
(* Properties of the pattern stabilizer.                                   *)
(***************************************************************************)
SpawnedIds == 0..(idCounter - 1)
ActiveIds == {activePatterns[k].id : k \in DOMAIN activePatterns}
StabilizedIn(removed) == {e \in removed : e.outcome = "stabilized"}

\* C12: every pattern the frame loop removes is removed once, by exactly
\* one of two outcomes: its progress reached 1, then setTension(min(1,
\* tension + 0.22)) is called and its particle system disposed; or its
\* progress reached 0, then addCoherence(3) is called and its particle
\* system disposed.  While the component is mounted a pattern whose
\* progress is strictly between 0 and 1 stays in the list, and no other
\* pattern does.
C12_PatternRemovedOnceByOutcome ==
  /\ \A id \in SpawnedIds :
       /\ Len(removals[id]) <= 1
       /\ disposals[id] <= 1
       /\ psMounted => disposals[id] = Len(removals[id])
       /\ psMounted => (id \in ActiveIds <=> removals[id] = <<>>)
  /\ \A e \in frameRec.removed :
       \/ e.outcome = "escaped" /\ e.progress >= ProgressFull
       \/ e.outcome = "stabilized" /\ e.progress <= 0
  /\ \A k \in DOMAIN activePatterns :
       /\ activePatterns[k].progress > 0
       /\ activePatterns[k].progress < ProgressFull
  /\ frameRec # NoFrame =>
       /\ tension = IF \E e \in frameRec.removed : e.outcome = "escaped"
                      THEN Min(100, frameRec.cur + EscapeTension)
                      ELSE frameRec.cur
       /\ tension >= frameRec.cur
       /\ coherence = Min(100, frameRec.coherenceBefore
                                 + StabilizeCoherence
                                   * Cardinality(StabilizedIn(frameRec.removed)))

\* one pattern escaped, one was stabilized, a third is under way
C12_Witness ==
  /\ psMounted
  /\ \E a, b \in SpawnedIds :
       /\ removals[a] = <<"escaped">>
       /\ removals[b] = <<"stabilized">>
  /\ Len(activePatterns) > 0

(***************************************************************************)
(* Properties of the AI director.                                          *)
(***************************************************************************)
\* C13: from every state of the director, an update() called while
\* performance.panic >= 86 ends in Relieving.
C13_EmergencyRelieves ==
  (dirStep # NoUpdate /\ dirStep.panic >= 86) => dirStep.to = "Relieving"

\* an update in Building with panic 86 while the Surging exit was open
C13_Witness ==
  /\ dirStep.from = "Building"
  /\ dirStep.panic = 86
  /\ dirStep.surge
  /\ dirStep.to = "Relieving"

\* the same from Surging
C13_WitnessSurging ==
  /\ dirStep.from = "Surging"
  /\ dirStep.panic >= 86
  /\ dirStep.to = "Relieving"

(***************************************************************************)
(* Properties of the governor.                                             *)
(***************************************************************************)
NukeEligible == config.useSpecials /\ snapshot.nukeReady
                /\ snapshot.panic > config.nukeThreshold

\* C16: whenever useSpecials and nukeReady are true and panic exceeds
\* nukeThreshold, decideAction returns the nuke press without drawing from
\* the rng: neither the accuracy-miss path nor the counter-selection path
\* is taken, whatever the stream, accuracy, aggressiveness and enemy list.
C16_NukePreempts ==
  (decision # NoDecision /\ NukeEligible) =>
    /\ decision.action = Press(NUKE_KEY)
    /\ decision.used = 0
    /\ decision.path = "nuke"

\* a nuke decision although the first draw is an accuracy miss and enemies
\* are on screen
C16_Witness ==
  /\ decision # NoDecision
  /\ NukeEligible
  /\ draws[1] > config.accuracy
  /\ Len(snapshot.enemyCounters) > 0
  /\ decision.action = Press(NUKE_KEY)

\* C17: every non-nuke press is gated by the aggressiveness probability,
\* hence with aggressiveness = 0 and no nuke-eligible state decideAction
\* always returns wait.
C17_PressesGated ==
  (decision # NoDecision /\ ~NukeEligible /\ config.aggressiveness = 0) =>
    decision.action = Wait

TypeOfKey(key) == CHOOSE t \in CounterTypes : COUNTER_KEY_MAP[t] = key

\* C18: for a non-empty enemy list bestCounterKey returns the key of a type
\* of maximal frequency, and among the types that tie for the maximum the
\* one that Object.entries(freq) enumerates first, which is the one
\* occurring first in the list.
C18_BestCounterKey ==
  best # NoBest =>
    LET list == snapshot.enemyCounters
        t == TypeOfKey(best)
    IN  /\ Count(list, t) > 0
        /\ \A u \in CounterTypes : Count(list, u) <= Count(list, t)
        /\ \A u \in CounterTypes :
             Count(list, u) = Count(list, t) =>
               FirstIndex(list, t) <= FirstIndex(list, u)

\* a tie between two types, won by the one that occurs first in the list
\* although it is declared after the other
C18_Witness ==
  /\ best = "F2"
  /\ snapshot.enemyCounters = <<"history", "reality">>

(***************************************************************************)
(* Properties of the input store.                                          *)
(***************************************************************************)
\* C21: after any sequence of pressKeycap, releaseKeycap and releaseAll
\* calls, heldKeycaps holds exactly the indices whose last call was a press
\* (pressed and not released since), and isAnyHeld is true exactly when
\* heldKeycaps is not empty.
C21_HeldKeycapsTracked ==
  /\ heldKeycaps = {index \in Keycaps : lastKeyOp[index] = "press"}
  /\ isAnyHeld <=> heldKeycaps # {}

\* one keycap is held while another was pressed and released again
C21_Witness ==
  /\ isAnyHeld
  /\ \E i, j \in Keycaps :
       /\ lastKeyOp[i] = "press"
       /\ lastKeyOp[j] = "release"
       /\ heldKeycaps = {i}


\* C29: at every moment at most one loop timer of the worker is pending,
\* whatever the interleaving of START, PAUSE, RESUME, TERMINATE, handler
\* errors, tick errors and ticks that end the game
C29_OneLoopTimer == Cardinality(pending) <= 1

\* a START handled while the loop was running: it cancelled the pending
\* timer and set the only one pending now
C29_Witness ==
  /\ step.op = "START"
  /\ ~step.threw
  /\ step.cleared = 1
  /\ running
  /\ Cardinality(pending) = 1

\* a RESUME repeated while the loop runs sets no second timer
C29_WitnessResume ==
  /\ step.op = "RESUME"
  /\ running
  /\ resumeAt = -1
  /\ Cardinality(pending) = 1

\* C30 (as claimed): a tick that runs while no session is active - the
\* worker never handled a successful START, or the loop stopped since
\* because the game ended or an error was reported - calls no logic.update
\* and posts no STATE; such a tick can only have been scheduled by a RESUME
C30_IdleResumeComputesNothing ==
  (step.op = "tick" /\ step.idle) =>
    /\ ~HasCall("update")
    /\ ~HasPosted("STATE")


\* C22: an updateTension call made while isInitialized is false does not
\* throw and performs no transport operation, neither in the call nor in a
\* continuation, whatever initialize() and shutdown() calls are in flight
\* around it
C22_UpdateTensionGated ==
  /\ (audioStep.op = "updateTension" /\ ~audioStep.initialized) =>
       /\ audioStep.transport = <<>>
       /\ ~audioStep.threw
  /\ \A i \in DOMAIN updating : updating[i].initialized
  /\ audioStep.op = "updateTension.resume" => audioStep.initialized

\* updateTension called while an initialize() is still suspended
C22_Witness ==
  /\ audioStep.op = "updateTension"
  /\ ~audioStep.initialized
  /\ initializing > 0
  /\ audioTension = 50
  /\ updating = <<>>

\* updateTension called after a shutdown() that stopped a started transport
C22_WitnessAfterShutdown ==
  /\ audioStep.op = "updateTension"
  /\ ~audioStep.initialized
  /\ ~transport.started
  /\ transport.bpm # DefaultBpm
  /\ InFlight = 0

\* C23: while playing, setPanic keeps the value clamped to [0, 100] and
\* issues a BPM ramp exactly when the clamped value differs by 2 or more
\* from the value of the last issued ramp; while not playing it makes no
\* transport call and does not throw
C23_PanicRampDebounced ==
  /\ musicPanic \in 0..100
  /\ (musicStep.op = "setPanic" /\ musicStep.playing) =>
       /\ musicPanic = ClampPanic(musicStep.input)
       /\ musicStep.ref # -1 =>
            (musicStep.ramped <=> Abs(musicPanic - musicStep.ref) >= 2)
       /\ musicStep.ramped <=> musicStep.transport # <<>>
  /\ (musicStep.op = "setPanic" /\ ~musicStep.playing) =>
       /\ musicStep.transport = <<>>
       /\ ~musicStep.ramped
       /\ ~musicStep.threw

\* a change of 1 since the last ramp is swallowed
C23_Witness ==
  /\ musicStep.op = "setPanic"
  /\ musicStep.playing
  /\ musicStep.ref = 50
  /\ musicStep.input = 51
  /\ ~musicStep.ramped

\* an argument above the range is clamped and ramps
C23_WitnessClamped ==
  /\ musicStep.op = "setPanic"
  /\ musicStep.playing
  /\ musicStep.ref = 50
  /\ musicStep.input = 150
  /\ musicPanic = 100
  /\ musicStep.ramped

\* setPanic after destroy()
C23_WitnessNotPlaying ==
  /\ musicStep.op = "setPanic"
  /\ ~musicStep.playing
  /\ ~musicInitialized
  /\ rampedAt # -1


\* C24: every goal evaluator other than Reposition returns desirability
\* exactly 0 when the shared attackCooldown is above 0 or when the pattern
\* it needs is missing from the active patterns; while the cooldown runs
\* only Reposition is selected
C24_AttacksBlockedOnCooldown ==
  bossStep.op = "update" =>
    /\ \A e \in Evaluators \ {"Reposition"} :
         (bossStep.cooldown > 0 \/ PatternMissing(e, bossStep.patterns)) =>
           bossStep.desirability[e] = 0
    /\ bossStep.cooldown > 0 => bossStep.selected = "Reposition"

\* an update during the cooldown of a low-health boss with every pattern
\* active: Rage and the attacks are silent, Reposition is selected
C24_Witness ==
  /\ bossStep.op = "update"
  /\ bossStep.cooldown > 0
  /\ bossStep.patterns = PatternNames
  /\ bossState.hp = 20
  /\ bossStep.selected = "Reposition"
  /\ bossStep.desirability["Reposition"] > 0

\* with the cooldown over, a missing pattern silences its evaluator only
C24_WitnessPattern ==
  /\ bossStep.op = "update"
  /\ bossStep.cooldown <= 0
  /\ bossStep.patterns = {"sweep"}
  /\ bossStep.desirability["Burst"] = 0
  /\ bossStep.desirability["Sweep"] > 0
  /\ bossStep.selected = "Sweep"


Alive(ps) == {i \in DOMAIN ps : ps[i].alive}

\* C25: while mounted the pool holds exactly 120 particles, no frame adds
\* or removes one; after a frame no live particle is below 0.4 (it was
\* parked at -100 and marked not alive), a parked particle is the one the
\* next successful activation takes, and so at most 120 are alive
C25_PoolFixedAndRecycled ==
  /\ spsMounted => Len(particles) = NbParticles
  /\ poolStep.op = "frame" => poolStep.size = Len(particles)
  /\ Cardinality(Alive(particles)) <= NbParticles
  /\ \A i \in DOMAIN particles :
       IF particles[i].alive THEN particles[i].y >= FloorY
       ELSE particles[i].y = ParkedY
  /\ poolStep.op = "frame" =>
       /\ \A i \in poolStep.died : i = poolStep.activated
                                    \/ ~particles[i].alive
       /\ (poolStep.rolled /\ poolStep.free) => poolStep.activated # 0
       /\ poolStep.activated # 0 => particles[poolStep.activated].alive

\* a particle that fell below 0.4 earlier is activated again
C25_Witness ==
  /\ poolStep.op = "frame"
  /\ poolStep.activated # 0
  /\ poolStep.activated \in retired
  /\ poolStep.died = {}

\* a particle falls below 0.4 and is parked while another stays alive
C25_WitnessFallen ==
  /\ poolStep.op = "frame"
  /\ poolStep.died # {}
  /\ poolStep.activated = 0
  /\ Alive(particles) # {}


\* C26: within one activation of HeadExplosion onComplete is called at most
\* once, and it is called on exactly the first frame of the activation at
\* which 2500 ms or more have elapsed since the activation began
C26_CompleteOncePerActivation ==
  /\ completions <= 1
  /\ explosionStep.op = "frame" =>
       (explosionStep.called <=> explosionStep.firstDue)
  /\ activeRef => (completions = 1 <=> dueFrames >= 1)

\* a later frame of the same activation, past 2500 ms: no second call
C26_Witness ==
  /\ explosionStep.op = "frame"
  /\ activeRef
  /\ dueFrames >= 2
  /\ completions = 1
  /\ ~explosionStep.called

\* the call itself, in a second activation
C26_WitnessSecondActivation ==
  /\ explosionStep.op = "frame"
  /\ explosionStep.called
  /\ explosionStep.elapsed >= EXPLOSION_DURATION
  /\ startTimeRef > 0


LacksSome(raw) ==
  raw.kind = "obj" /\ \E f \in FieldNames : raw.fields[f] = Missing

\* C27 (as claimed): loadHighScore never throws; text that is not JSON
\* gives the default record; a stored object that lacks some fields gives
\* its present fields unchanged and the default for each missing one
C27_PresentFieldsUnchanged ==
  loaded.op = "load" =>
    /\ ~loaded.threw
    /\ loaded.raw.kind = "garbage" => loaded.result = DEFAULT_HIGH_SCORE
    /\ LacksSome(loaded.raw) =>
         \A f \in FieldNames :
           loaded.result[f] = IF loaded.raw.fields[f] = Missing
                              THEN DEFAULT_HIGH_SCORE[f]
                              ELSE loaded.raw.fields[f]

\* C27 (amended): loadHighScore never throws; text that is not JSON gives
\* the default record; of a stored object every field that is present and
\* not null is returned unchanged, every field that is missing or null is
\* defaulted on its own
C27_NonNullFieldsUnchanged ==
  loaded.op = "load" =>
    /\ ~loaded.threw
    /\ loaded.raw.kind = "garbage" => loaded.result = DEFAULT_HIGH_SCORE
    /\ loaded.raw.kind = "obj" =>
         \A f \in FieldNames :
           loaded.result[f] =
             IF loaded.raw.fields[f] \in {Missing, JNull}
             THEN DEFAULT_HIGH_SCORE[f]
             ELSE loaded.raw.fields[f]

\* the stored text {"peakCoherence": 42} is loaded as {42, 0, ''}
C27_Witness ==
  /\ loaded.op = "load"
  /\ loaded.raw.kind = "obj"
  /\ loaded.raw.fields = [NoFields EXCEPT !.peakCoherence = Num(42)]
  /\ loaded.result = [DEFAULT_HIGH_SCORE EXCEPT !.peakCoherence = Num(42)]

\* the stored text {"peakCoherence": null, "seed": "abc123"}: the null
\* field is present and is returned as 0
C27_WitnessNull ==
  /\ loaded.op = "load"
  /\ loaded.raw.kind = "obj"
  /\ loaded.raw.fields.peakCoherence = JNull
  /\ loaded.raw.fields.levelsSurvived = Missing
  /\ loaded.result.peakCoherence = Num(0)
  /\ loaded.result.seed = Str("abc123")

\* text that is not JSON is loaded as the default record
C27_WitnessCorrupted ==
  /\ loaded.op = "load"
  /\ loaded.raw.kind = "garbage"
  /\ loaded.caught
  /\ loaded.result = DEFAULT_HIGH_SCORE


\* the archetype the description assigns to each value of seedHash % 4
ClaimedArchetype ==
  <<"PlatterRotationDream", "LeverTensionDream", "KeySequenceDream",
    "CrystallineCubeBossDream">>

C31_PausedCommandsInert ==
  (step.op = "tick" /\ step.anchor # -1 /\ ~step.idle /\ HasPosted("STATE")) =>
    step.pausedInputs = 0

\* C32 (as claimed): whenever the screen is 'paused', the worker's loop is
\* stopped once the worker has handled the commands posted so far, so that
\* no tick is computed other than one already in flight
C32_NoLoopWhilePausedScreen == screen = "paused" => ~workerRunning

\* C33 (as claimed): every tick that calls logic.update passes it a frame
\* factor dt with 0 <= dt <= clamp (60 in game.worker.ts, 10 in part_022),
\* also on the first tick after START or RESUME and after the system time
\* was adjusted
C33_FrameFactorInRange ==
  (step.op = "tick" /\ step.dt # NoDt) =>
    /\ 0 <= step.dt
    /\ step.dt <= Clamp * FrameMs100

\* C34 (as claimed): the worker answers a PING command with a READY message
\* if and only if new GameLogic() succeeded, in both worker implementations
C34_PingAnsweredIffConstructed ==
  step.op = "PING" => (HasPosted("READY") <=> logic # Undefined)

\* C35 (as claimed): after every sequence of advanceLevel, addCoherence,
\* setTension and reset calls the level store has peakCoherence >= coherence
C35_PeakAtLeastCoherence == peakCoherence >= coherence

\* patterns the last frame removed because they reached the rim
EscapedInFrame == {e \in frameRec.removed : e.outcome = "escaped"}

\* C36 (as claimed): when k patterns reach progress 1 in the same frame,
\* which began with tension t, the tension stored after the frame is
\* min(1, t + 0.22 * k)
C36_EachEscapeAddsTension ==
  frameRec.cur # -1 =>
    tension = Min(100, frameRec.cur
                       + EscapeTension * Cardinality(EscapedInFrame))

\* C37 (as claimed): a pattern credited as stabilized had a strictly
\* positive progress at the end of an earlier frame; in particular the
\* pattern a frame spawns is not credited by that same frame
C37_CreditOnlyAfterAdvance ==
  \A e \in frameRec.removed :
    e.outcome = "stabilized" => e.id # frameRec.spawned

\* C38 (as claimed): every entity added to the miniplex world for a pattern
\* is removed when the pattern is disposed, so the world never holds more
\* pattern entities than there are active patterns
C38_NoLeakedPatternEntities == patternEntities <= Len(activePatterns)

\* C39 (as claimed): when initialize() is invoked again while an earlier
\* invocation is still awaiting, the layers and the evolution loop are
\* constructed and the transport is started once: no continuation of
\* initialize() constructs them when the store is already initialized
C39_OverlappingInitializeBuildsOnce ==
  (audioStep.op = "initialize.resume" /\ ~audioStep.threw) =>
    ~audioStep.initialized


(***************************************************************************)
(* Properties of SpatialAudio.                                             *)
(***************************************************************************)
\* the calls that have constructed at least one node
SetsBuilt == {i \in DOMAIN synthCalls : synthCalls[i].nodes > 0}

\* the cleanup has run and no initSynths call is suspended at an await
SpatialQuiet ==
  /\ ~saMounted
  /\ \A i \in DOMAIN synthCalls : synthCalls[i].stage = "done"

\* C40 (as claimed): in one mount at most one set of synth chains is
\* constructed, and once the cleanup has run and no initSynths call is in
\* flight every constructed node has been disposed.  Two calls that both
\* pass the guard before either assigns synthsRef.current build two sets,
\* and the cleanup disposes only the set synthsRef.current holds.
C40_OneSetAllDisposed ==
  /\ Cardinality(SetsBuilt) <= 1
  /\ SpatialQuiet => SetsBuilt \subseteq disposedSets

=============================================================================
